---- MODULE Spec2Model ----
(***************************************************************************)
(* A model of the fuzzy matcher of SamRoberts/fuzzy_rust: the flattening   *)
(* of a core pattern (fuzzy/src/flat_pattern.rs) and the iterative dense   *)
(* solver TableSolution (fuzzy/src/table_solution.rs): its work loop, its  *)
(* node table and the reconstruction of the trace.                         *)
(*                                                                         *)
(* Characters are their code points.  A class is the set of the inclusive  *)
(* code point ranges <<start, end>> that regex_syntax hands over.  Vectors *)
(* are TLA+ sequences; the operators FlatGet, TextGet and StateGet keep    *)
(* the 0-based indexing of the source.                                     *)
(***************************************************************************)
EXTENDS Integers, Sequences, FiniteSets, TLC

(***************************************************************************)
(* Bounds of the model.                                                    *)
(***************************************************************************)
MaxPatSize == 2
MaxTextLen == 2
MaxLitLen == 3

(***************************************************************************)
(* Characters and classes.                                                 *)
(***************************************************************************)
Chars == {97, 98}                                   \* 'a', 'b'
NoChar == 0 - 1                                     \* Option<&char>::None
ClassNotA == {<<0, 96>>, <<98, 1114111>>}           \* [^a]
ClassAny == {<<0, 9>>, <<11, 1114111>>}             \* .

\* Class::matches
ClassMatches(class, c) ==
    \E range \in class : range[1] <= c /\ c <= range[2]

(***************************************************************************)
(* The core pattern: a sequence of elements.  Every element is a record of *)
(* the same shape; k names the variant, c is the character of a Lit, cs    *)
(* the class of a Class, a the inner pattern of a Capture or Repetition or *)
(* the left branch of an Alternative, b the right branch.                  *)
(***************************************************************************)
MatchLit(c) == [k |-> "Lit", c |-> c, cs |-> {}]
MatchClass(cs) == [k |-> "Class", c |-> NoChar, cs |-> cs]
NoMatch == [k |-> "None", c |-> NoChar, cs |-> {}]

ElemLit(c) == [k |-> "Lit", c |-> c, cs |-> {}, a |-> <<>>, b |-> <<>>]
ElemClass(cs) == [k |-> "Class", c |-> NoChar, cs |-> cs, a |-> <<>>, b |-> <<>>]
ElemCapture(inner) == [k |-> "Capture", c |-> NoChar, cs |-> {}, a |-> inner, b |-> <<>>]
ElemRepetition(inner) == [k |-> "Repetition", c |-> NoChar, cs |-> {}, a |-> inner, b |-> <<>>]
ElemAlternative(p1, p2) == [k |-> "Alternative", c |-> NoChar, cs |-> {}, a |-> p1, b |-> p2]

(***************************************************************************)
(* The flat pattern.                                                       *)
(***************************************************************************)
Flat(k, c, cs, off) == [k |-> k, c |-> c, cs |-> cs, off |-> off]
FlatLit(c) == Flat("Lit", c, {}, 0)
FlatClass(cs) == Flat("Class", NoChar, cs, 0)
FlatGroupStart == Flat("GroupStart", NoChar, {}, 0)
FlatGroupEnd == Flat("GroupEnd", NoChar, {}, 0)
FlatAlternativeLeft(off) == Flat("AlternativeLeft", NoChar, {}, off)

FlatAlternativeRightLong(off) ==
    Flat("AlternativeRight", NoChar, {}, off + 1)

FlatAlternativeRight(off) ==
    Flat("AlternativeRight", NoChar, {}, off)

FlatRepetitionStart(off) == Flat("RepetitionStart", NoChar, {}, off)
FlatRepetitionEnd(off) == Flat("RepetitionEnd", NoChar, {}, off)
NoFlat == Flat("None", NoChar, {}, 0)               \* Option<&Flat>::None

single_pattOnce(result, elem, reps) == result \o <<elem>>

\* FlatPattern::single_patt: push reps copies of elem
single_patt(result, elem, reps) ==
    result \o [i \in 1..reps |-> elem]

update_pattFirst(result, elem, ix, reps) ==
    [i \in 1..Len(result) |-> IF i = ix + 1 THEN elem ELSE result[i]]

\* FlatPattern::update_patt: overwrite the reps copies that start at ix
update_patt(result, elem, ix, reps) ==
    [i \in 1..Len(result) |->
        IF ix + 1 <= i /\ i <= ix + reps THEN elem ELSE result[i]]

RECURSIVE pattern_patts(_, _, _, _)
RECURSIVE pattern_rest(_, _, _, _)
RECURSIVE elem_patts(_, _, _, _)

\* FlatPattern::pattern_patts
pattern_patts(result, pattern, reps, rep_incr) ==
    IF pattern = <<>> THEN result
    ELSE pattern_rest(elem_patts(result, Head(pattern), reps, rep_incr),
                      Tail(pattern), reps, rep_incr)

\* FlatPattern::pattern_patts: the loop after one element is pushed.  The
\* test of the length has the pushed value built here, as the loop builds
\* it, and not at the end of the pattern.
pattern_rest(result, pattern, reps, rep_incr) ==
    IF Len(result) >= 0
    THEN pattern_patts(result, pattern, reps, rep_incr)
    ELSE result

elem_pattsShortEnd(result, elem, reps, rep_incr) ==
    CASE elem.k = "Lit" -> single_patt(result, FlatLit(elem.c), reps)
      [] elem.k = "Class" -> single_patt(result, FlatClass(elem.cs), reps)
      [] elem.k = "Capture" ->
            LET r1 == single_patt(result, FlatGroupStart, reps)
                r2 == pattern_patts(r1, elem.a, reps, rep_incr)
            IN  single_patt(r2, FlatGroupEnd, reps)
      [] elem.k = "Repetition" ->
            LET next_reps == reps + rep_incr
                start_ix == Len(result)
                r1 == single_patt(result, FlatRepetitionStart(0), reps)
                r2 == pattern_patts(r1, elem.a, next_reps, rep_incr)
                end_ix == Len(r2)
                r3 == single_patt(r2, FlatRepetitionEnd(0), next_reps)
                off == end_ix - start_ix
                r4 == update_patt(r3, FlatRepetitionStart(off), start_ix, reps)
            IN  update_patt(r4, FlatRepetitionEnd(off - reps), end_ix, next_reps)
      [] elem.k = "Alternative" ->
            LET left_ix == Len(result)
                r1 == single_patt(result, FlatAlternativeLeft(0), reps)
                r2 == pattern_patts(r1, elem.a, reps, rep_incr)
                right_ix == Len(r2)
                r3 == single_patt(r2, FlatAlternativeRight(0), reps)
                r4 == pattern_patts(r3, elem.b, reps, rep_incr)
                next_ix == Len(r4)
                left_off == right_ix - left_ix
                right_off == next_ix - right_ix
                r5 == update_patt(r4, FlatAlternativeLeft(left_off), left_ix, reps)
            IN  update_patt(r5, FlatAlternativeRight(right_off), right_ix, reps)

\* FlatPattern::elem_patts
elem_patts(result, elem, reps, rep_incr) ==
    CASE elem.k = "Lit" -> single_patt(result, FlatLit(elem.c), reps)
      [] elem.k = "Class" -> single_patt(result, FlatClass(elem.cs), reps)
      [] elem.k = "Capture" ->
            LET r1 == single_patt(result, FlatGroupStart, reps)
                r2 == pattern_patts(r1, elem.a, reps, rep_incr)
            IN  single_patt(r2, FlatGroupEnd, reps)
      [] elem.k = "Repetition" ->
            LET next_reps == reps + rep_incr
                start_ix == Len(result)
                r1 == single_patt(result, FlatRepetitionStart(0), reps)
                r2 == pattern_patts(r1, elem.a, next_reps, rep_incr)
                end_ix == Len(r2)
                r3 == single_patt(r2, FlatRepetitionEnd(0), next_reps)
                off == end_ix - start_ix
                r4 == update_patt(r3, FlatRepetitionStart(off), start_ix, reps)
            IN  update_patt(r4, FlatRepetitionEnd(off), end_ix, next_reps)
      [] elem.k = "Alternative" ->
            LET left_ix == Len(result)
                r1 == single_patt(result, FlatAlternativeLeft(0), reps)
                r2 == pattern_patts(r1, elem.a, reps, rep_incr)
                right_ix == Len(r2)
                r3 == single_patt(r2, FlatAlternativeRight(0), reps)
                r4 == pattern_patts(r3, elem.b, reps, rep_incr)
                next_ix == Len(r4)
                left_off == right_ix - left_ix
                right_off == next_ix - right_ix
                r5 == update_patt(r4, FlatAlternativeLeft(left_off), left_ix, reps)
            IN  update_patt(r5, FlatAlternativeRight(right_off), right_ix, reps)

\* FlatPattern::custom
FlatPatternCustom(pattern, rep_incr) ==
    pattern_patts(<<>>, pattern, 1, rep_incr)

\* FlatPattern::get
FlatGet(elems, i) ==
    IF 0 <= i /\ i < Len(elems) THEN elems[i + 1] ELSE NoFlat

\* Vec<char>::get
TextGet(atoms, i) ==
    IF 0 <= i /\ i < Len(atoms) THEN atoms[i + 1] ELSE NoChar

(***************************************************************************)
(* Lattice indices, step types and node types.                             *)
(***************************************************************************)
Ix(pattern, text, reps, rep_off) ==
    [pattern |-> pattern, text |-> text, reps |-> reps, rep_off |-> rep_off]

\* Ix::default
DefaultIx == Ix(0, 0, 0, 0)

\* Ix::can_restart
can_restart(ix) == ix.rep_off = 0

StepType(k, off) == [k |-> k, off |-> off]
StHit == StepType("Hit", 0)
StSkipText == StepType("SkipText", 0)
StSkipPattern == StepType("SkipPattern", 0)
StStartGroup == StepType("StartGroup", 0)
StEndGroup == StepType("EndGroup", 0)
StStartLeft == StepType("StartLeft", 0)
StStartRight(off) == StepType("StartRight", off)
StPassRight(off) == StepType("PassRight", off)
StStartRepetition == StepType("StartRepetition", 0)
StPassRepetition(off) == StepType("PassRepetition", off)
StEndRepetition == StepType("EndRepetition", 0)
StRestartRepetition(off) == StepType("RestartRepetition", off)

\* StepType::cost with the arm of SkipText left out
StepTypeCostFreeSkipText(step_type) ==
    CASE step_type.k = "SkipPattern" -> 1
      [] OTHER -> 0

\* StepType::cost
StepTypeCost(step_type) ==
    CASE step_type.k = "SkipPattern" -> 1
      [] step_type.k = "SkipText" -> 1
      [] OTHER -> 0

\* StepType::step with the arm of SkipPattern left out
StepTypeStepNoSkipPattern(step_type) ==
    CASE step_type.k = "Hit" -> "Hit"
      [] step_type.k = "SkipText" -> "SkipText"
      [] step_type.k = "StartGroup" -> "StartCapture"
      [] step_type.k = "EndGroup" -> "StopCapture"
      [] OTHER -> "None"

\* StepType::step with the arm of SkipText left out
StepTypeStepNoSkipText(step_type) ==
    CASE step_type.k = "Hit" -> "Hit"
      [] step_type.k = "SkipPattern" -> "SkipPattern"
      [] step_type.k = "StartGroup" -> "StartCapture"
      [] step_type.k = "EndGroup" -> "StopCapture"
      [] OTHER -> "None"

\* StepType::step: the kind of trace step emitted, "None" when there is none
StepTypeStepNoStop(step_type) ==
    CASE step_type.k = "Hit" -> "Hit"
      [] step_type.k = "SkipPattern" -> "SkipPattern"
      [] step_type.k = "SkipText" -> "SkipText"
      [] step_type.k = "StartGroup" -> "StartCapture"
      [] OTHER -> "None"

StepTypeStep(step_type) ==
    CASE step_type.k = "Hit" -> "Hit"
      [] step_type.k = "SkipPattern" -> "SkipPattern"
      [] step_type.k = "SkipText" -> "SkipText"
      [] step_type.k = "StartGroup" -> "StartCapture"
      [] step_type.k = "EndGroup" -> "StopCapture"
      [] OTHER -> "None"

NodeType(k, off) == [k |-> k, off |-> off]
NoNodeType == NodeType("None", 0)                   \* Option<NodeType>::None

\* NodeType::get with the guard of the first Lit arm testing only that a
\* character is left
NodeTypeGetLitAlwaysHit(opt_flat, opt_text, ix) ==
    CASE opt_flat.k = "None" ->
            IF opt_text = NoChar THEN NoNodeType ELSE NodeType("FinishedPattern", 0)
      [] opt_flat.k = "Lit" ->
            IF opt_text # NoChar THEN NodeType("Hit", 0)
            ELSE IF opt_text = NoChar THEN NodeType("FinishedText", 0)
            ELSE NodeType("NoHit", 0)
      [] opt_flat.k = "Class" ->
            IF opt_text # NoChar /\ ClassMatches(opt_flat.cs, opt_text)
            THEN NodeType("Hit", 0)
            ELSE IF opt_text = NoChar THEN NodeType("FinishedText", 0)
            ELSE NodeType("NoHit", 0)
      [] opt_flat.k = "GroupStart" -> NodeType("StartGroup", 0)
      [] opt_flat.k = "GroupEnd" -> NodeType("EndGroup", 0)
      [] opt_flat.k = "AlternativeLeft" -> NodeType("AlternativeLeft", opt_flat.off)
      [] opt_flat.k = "AlternativeRight" -> NodeType("AlternativeRight", opt_flat.off)
      [] opt_flat.k = "RepetitionStart" -> NodeType("RepetitionStart", opt_flat.off)
      [] opt_flat.k = "RepetitionEnd" ->
            IF can_restart(ix) THEN NodeType("RepetitionRestart", opt_flat.off)
            ELSE NodeType("RepetitionEnd", 0)

\* NodeType::get with the Class arm that hits left out
NodeTypeGetClassNeverHits(opt_flat, opt_text, ix) ==
    CASE opt_flat.k = "None" ->
            IF opt_text = NoChar THEN NoNodeType ELSE NodeType("FinishedPattern", 0)
      [] opt_flat.k = "Lit" ->
            IF opt_text = opt_flat.c THEN NodeType("Hit", 0)
            ELSE IF opt_text = NoChar THEN NodeType("FinishedText", 0)
            ELSE NodeType("NoHit", 0)
      [] opt_flat.k = "Class" ->
            IF opt_text = NoChar THEN NodeType("FinishedText", 0)
            ELSE NodeType("NoHit", 0)
      [] opt_flat.k = "GroupStart" -> NodeType("StartGroup", 0)
      [] opt_flat.k = "GroupEnd" -> NodeType("EndGroup", 0)
      [] opt_flat.k = "AlternativeLeft" -> NodeType("AlternativeLeft", opt_flat.off)
      [] opt_flat.k = "AlternativeRight" -> NodeType("AlternativeRight", opt_flat.off)
      [] opt_flat.k = "RepetitionStart" -> NodeType("RepetitionStart", opt_flat.off)
      [] opt_flat.k = "RepetitionEnd" ->
            IF can_restart(ix) THEN NodeType("RepetitionRestart", opt_flat.off)
            ELSE NodeType("RepetitionEnd", 0)

\* NodeType::get with a Lit hitting the other case of its letter as well
NodeTypeGetCaseBlind(opt_flat, opt_text, ix) ==
    CASE opt_flat.k = "None" ->
            IF opt_text = NoChar THEN NoNodeType ELSE NodeType("FinishedPattern", 0)
      [] opt_flat.k = "Lit" ->
            IF opt_text # NoChar /\ opt_text \in {opt_flat.c, opt_flat.c + 32, opt_flat.c - 32}
            THEN NodeType("Hit", 0)
            ELSE IF opt_text = NoChar THEN NodeType("FinishedText", 0)
            ELSE NodeType("NoHit", 0)
      [] opt_flat.k = "Class" ->
            IF opt_text # NoChar /\ ClassMatches(opt_flat.cs, opt_text)
            THEN NodeType("Hit", 0)
            ELSE IF opt_text = NoChar THEN NodeType("FinishedText", 0)
            ELSE NodeType("NoHit", 0)
      [] opt_flat.k = "GroupStart" -> NodeType("StartGroup", 0)
      [] opt_flat.k = "GroupEnd" -> NodeType("EndGroup", 0)
      [] opt_flat.k = "AlternativeLeft" -> NodeType("AlternativeLeft", opt_flat.off)
      [] opt_flat.k = "AlternativeRight" -> NodeType("AlternativeRight", opt_flat.off)
      [] opt_flat.k = "RepetitionStart" -> NodeType("RepetitionStart", opt_flat.off)
      [] opt_flat.k = "RepetitionEnd" ->
            IF can_restart(ix) THEN NodeType("RepetitionRestart", opt_flat.off)
            ELSE NodeType("RepetitionEnd", 0)

\* NodeType::get
NodeTypeGet(opt_flat, opt_text, ix) ==
    CASE opt_flat.k = "None" ->
            IF opt_text = NoChar THEN NoNodeType ELSE NodeType("FinishedPattern", 0)
      [] opt_flat.k = "Lit" ->
            IF opt_text = opt_flat.c THEN NodeType("Hit", 0)
            ELSE IF opt_text = NoChar THEN NodeType("FinishedText", 0)
            ELSE NodeType("NoHit", 0)
      [] opt_flat.k = "Class" ->
            IF opt_text # NoChar /\ ClassMatches(opt_flat.cs, opt_text)
            THEN NodeType("Hit", 0)
            ELSE IF opt_text = NoChar THEN NodeType("FinishedText", 0)
            ELSE NodeType("NoHit", 0)
      [] opt_flat.k = "GroupStart" -> NodeType("StartGroup", 0)
      [] opt_flat.k = "GroupEnd" -> NodeType("EndGroup", 0)
      [] opt_flat.k = "AlternativeLeft" -> NodeType("AlternativeLeft", opt_flat.off)
      [] opt_flat.k = "AlternativeRight" -> NodeType("AlternativeRight", opt_flat.off)
      [] opt_flat.k = "RepetitionStart" -> NodeType("RepetitionStart", opt_flat.off)
      [] opt_flat.k = "RepetitionEnd" ->
            IF can_restart(ix) THEN NodeType("RepetitionRestart", opt_flat.off)
            ELSE NodeType("RepetitionEnd", 0)

\* NodeType::step_types with NoHit unable to skip the text
NodeTypeStepTypesNoHitKeepsText(node_type) ==
    CASE node_type.k = "FinishedPattern" -> <<StSkipText>>
      [] node_type.k = "FinishedText" -> <<StSkipPattern>>
      [] node_type.k = "Hit" -> <<StHit, StSkipPattern, StSkipText>>
      [] node_type.k = "NoHit" -> <<StSkipPattern>>
      [] node_type.k = "StartGroup" -> <<StStartGroup>>
      [] node_type.k = "EndGroup" -> <<StEndGroup>>
      [] node_type.k = "AlternativeLeft" -> <<StStartLeft, StStartRight(node_type.off)>>
      [] node_type.k = "AlternativeRight" -> <<StPassRight(node_type.off)>>
      [] node_type.k = "RepetitionStart" ->
            <<StStartRepetition, StPassRepetition(node_type.off)>>
      [] node_type.k = "RepetitionRestart" -> <<StRestartRepetition(node_type.off)>>
      [] node_type.k = "RepetitionEnd" -> <<StEndRepetition>>

\* NodeType::step_types with AlternativeRight stepping into the right branch
NodeTypeStepTypesFallsThrough(node_type) ==
    CASE node_type.k = "FinishedPattern" -> <<StSkipText>>
      [] node_type.k = "FinishedText" -> <<StSkipPattern>>
      [] node_type.k = "Hit" -> <<StHit, StSkipPattern, StSkipText>>
      [] node_type.k = "NoHit" -> <<StSkipPattern, StSkipText>>
      [] node_type.k = "StartGroup" -> <<StStartGroup>>
      [] node_type.k = "EndGroup" -> <<StEndGroup>>
      [] node_type.k = "AlternativeLeft" -> <<StStartLeft, StStartRight(node_type.off)>>
      [] node_type.k = "AlternativeRight" -> <<StStartLeft>>
      [] node_type.k = "RepetitionStart" ->
            <<StStartRepetition, StPassRepetition(node_type.off)>>
      [] node_type.k = "RepetitionRestart" -> <<StRestartRepetition(node_type.off)>>
      [] node_type.k = "RepetitionEnd" -> <<StEndRepetition>>

\* NodeType::step_types with AlternativeLeft unable to start the right branch
NodeTypeStepTypesLeftOnly(node_type) ==
    CASE node_type.k = "FinishedPattern" -> <<StSkipText>>
      [] node_type.k = "FinishedText" -> <<StSkipPattern>>
      [] node_type.k = "Hit" -> <<StHit, StSkipPattern, StSkipText>>
      [] node_type.k = "NoHit" -> <<StSkipPattern, StSkipText>>
      [] node_type.k = "StartGroup" -> <<StStartGroup>>
      [] node_type.k = "EndGroup" -> <<StEndGroup>>
      [] node_type.k = "AlternativeLeft" -> <<StStartLeft>>
      [] node_type.k = "AlternativeRight" -> <<StPassRight(node_type.off)>>
      [] node_type.k = "RepetitionStart" ->
            <<StStartRepetition, StPassRepetition(node_type.off)>>
      [] node_type.k = "RepetitionRestart" -> <<StRestartRepetition(node_type.off)>>
      [] node_type.k = "RepetitionEnd" -> <<StEndRepetition>>

\* NodeType::step_types with RepetitionStart unable to pass the repetition
NodeTypeStepTypesNoPass(node_type) ==
    CASE node_type.k = "FinishedPattern" -> <<StSkipText>>
      [] node_type.k = "FinishedText" -> <<StSkipPattern>>
      [] node_type.k = "Hit" -> <<StHit, StSkipPattern, StSkipText>>
      [] node_type.k = "NoHit" -> <<StSkipPattern, StSkipText>>
      [] node_type.k = "StartGroup" -> <<StStartGroup>>
      [] node_type.k = "EndGroup" -> <<StEndGroup>>
      [] node_type.k = "AlternativeLeft" -> <<StStartLeft, StStartRight(node_type.off)>>
      [] node_type.k = "AlternativeRight" -> <<StPassRight(node_type.off)>>
      [] node_type.k = "RepetitionStart" ->
            <<StStartRepetition>>
      [] node_type.k = "RepetitionRestart" -> <<StRestartRepetition(node_type.off)>>
      [] node_type.k = "RepetitionEnd" -> <<StEndRepetition>>

\* NodeType::step_types with Hit unable to skip the text
NodeTypeStepTypesHitKeepsText(node_type) ==
    CASE node_type.k = "FinishedPattern" -> <<StSkipText>>
      [] node_type.k = "FinishedText" -> <<StSkipPattern>>
      [] node_type.k = "Hit" -> <<StHit, StSkipPattern>>
      [] node_type.k = "NoHit" -> <<StSkipPattern, StSkipText>>
      [] node_type.k = "StartGroup" -> <<StStartGroup>>
      [] node_type.k = "EndGroup" -> <<StEndGroup>>
      [] node_type.k = "AlternativeLeft" -> <<StStartLeft, StStartRight(node_type.off)>>
      [] node_type.k = "AlternativeRight" -> <<StPassRight(node_type.off)>>
      [] node_type.k = "RepetitionStart" ->
            <<StStartRepetition, StPassRepetition(node_type.off)>>
      [] node_type.k = "RepetitionRestart" -> <<StRestartRepetition(node_type.off)>>
      [] node_type.k = "RepetitionEnd" -> <<StEndRepetition>>

\* NodeType::step_types
NodeTypeStepTypes(node_type) ==
    CASE node_type.k = "FinishedPattern" -> <<StSkipText>>
      [] node_type.k = "FinishedText" -> <<StSkipPattern>>
      [] node_type.k = "Hit" -> <<StHit, StSkipPattern, StSkipText>>
      [] node_type.k = "NoHit" -> <<StSkipPattern, StSkipText>>
      [] node_type.k = "StartGroup" -> <<StStartGroup>>
      [] node_type.k = "EndGroup" -> <<StEndGroup>>
      [] node_type.k = "AlternativeLeft" -> <<StStartLeft, StStartRight(node_type.off)>>
      [] node_type.k = "AlternativeRight" -> <<StPassRight(node_type.off)>>
      [] node_type.k = "RepetitionStart" ->
            <<StStartRepetition, StPassRepetition(node_type.off)>>
      [] node_type.k = "RepetitionRestart" -> <<StRestartRepetition(node_type.off)>>
      [] node_type.k = "RepetitionEnd" -> <<StEndRepetition>>

(***************************************************************************)
(* Config: the text and the flat pattern, replicated with rep_incr = 1.    *)
(***************************************************************************)
\* Config::new
ConfigNew(pattern, text) ==
    [text |-> text, pattern |-> FlatPatternCustom(pattern, 1)]

\* Config::get
ConfigGet(conf, ix) ==
    [flat |-> FlatGet(conf.pattern, ix.pattern), text |-> TextGet(conf.text, ix.text)]

\* Config::start
ConfigStart(conf) == Ix(0, 0, 1, 0)

\* Config::end
ConfigEnd(conf) == Ix(Len(conf.pattern), Len(conf.text), 1, 0)

\* Config::step with StartRepetition leaving rep_off as it is
ConfigStepKeepsRepOff(ix, step_type) ==
    CASE step_type.k = "Hit" ->
            [ix EXCEPT !.pattern = ix.pattern + ix.reps, !.text = ix.text + 1, !.rep_off = 0]
      [] step_type.k = "SkipText" ->
            [ix EXCEPT !.text = ix.text + 1, !.rep_off = 0]
      [] step_type.k \in {"SkipPattern", "StartGroup", "EndGroup", "StartLeft"} ->
            [ix EXCEPT !.pattern = ix.pattern + ix.reps]
      [] step_type.k = "StartRight" ->
            [ix EXCEPT !.pattern = ix.pattern + step_type.off + ix.reps]
      [] step_type.k = "PassRight" ->
            [ix EXCEPT !.pattern = ix.pattern + step_type.off]
      [] step_type.k = "StartRepetition" ->
            [ix EXCEPT !.pattern = ix.pattern + ix.reps, !.reps = ix.reps + 1]
      [] step_type.k = "EndRepetition" ->
            [ix EXCEPT !.pattern = ix.pattern + ix.reps, !.reps = ix.reps - 1,
                       !.rep_off = ix.rep_off - 1]
      [] step_type.k = "PassRepetition" ->
            [ix EXCEPT !.pattern = ix.pattern + step_type.off + ix.reps + 1]
      [] step_type.k = "RestartRepetition" ->
            [ix EXCEPT !.pattern = ix.pattern - step_type.off, !.reps = ix.reps - 1]

\* Config::step with RestartRepetition leaving the repetition instead of
\* jumping back to its start
ConfigStepRestartLeaves(ix, step_type) ==
    CASE step_type.k = "Hit" ->
            [ix EXCEPT !.pattern = ix.pattern + ix.reps, !.text = ix.text + 1, !.rep_off = 0]
      [] step_type.k = "SkipText" ->
            [ix EXCEPT !.text = ix.text + 1, !.rep_off = 0]
      [] step_type.k \in {"SkipPattern", "StartGroup", "EndGroup", "StartLeft"} ->
            [ix EXCEPT !.pattern = ix.pattern + ix.reps]
      [] step_type.k = "StartRight" ->
            [ix EXCEPT !.pattern = ix.pattern + step_type.off + ix.reps]
      [] step_type.k = "PassRight" ->
            [ix EXCEPT !.pattern = ix.pattern + step_type.off]
      [] step_type.k = "StartRepetition" ->
            [ix EXCEPT !.pattern = ix.pattern + ix.reps, !.reps = ix.reps + 1,
                       !.rep_off = ix.rep_off + 1]
      [] step_type.k = "EndRepetition" ->
            [ix EXCEPT !.pattern = ix.pattern + ix.reps, !.reps = ix.reps - 1,
                       !.rep_off = ix.rep_off - 1]
      [] step_type.k = "PassRepetition" ->
            [ix EXCEPT !.pattern = ix.pattern + step_type.off + ix.reps + 1]
      [] step_type.k = "RestartRepetition" ->
            [ix EXCEPT !.pattern = ix.pattern + ix.reps, !.reps = ix.reps - 1]

\* Config::step with Hit leaving rep_off as it is
ConfigStepHitKeepsRepOff(ix, step_type) ==
    CASE step_type.k = "Hit" ->
            [ix EXCEPT !.pattern = ix.pattern + ix.reps, !.text = ix.text + 1]
      [] step_type.k = "SkipText" ->
            [ix EXCEPT !.text = ix.text + 1, !.rep_off = 0]
      [] step_type.k \in {"SkipPattern", "StartGroup", "EndGroup", "StartLeft"} ->
            [ix EXCEPT !.pattern = ix.pattern + ix.reps]
      [] step_type.k = "StartRight" ->
            [ix EXCEPT !.pattern = ix.pattern + step_type.off + ix.reps]
      [] step_type.k = "PassRight" ->
            [ix EXCEPT !.pattern = ix.pattern + step_type.off]
      [] step_type.k = "StartRepetition" ->
            [ix EXCEPT !.pattern = ix.pattern + ix.reps, !.reps = ix.reps + 1,
                       !.rep_off = ix.rep_off + 1]
      [] step_type.k = "EndRepetition" ->
            [ix EXCEPT !.pattern = ix.pattern + ix.reps, !.reps = ix.reps - 1,
                       !.rep_off = ix.rep_off - 1]
      [] step_type.k = "PassRepetition" ->
            [ix EXCEPT !.pattern = ix.pattern + step_type.off + ix.reps + 1]
      [] step_type.k = "RestartRepetition" ->
            [ix EXCEPT !.pattern = ix.pattern - step_type.off, !.reps = ix.reps - 1]

\* Config::step with PassRepetition jumping one place too far
ConfigStepPassOvershoots(ix, step_type) ==
    CASE step_type.k = "Hit" ->
            [ix EXCEPT !.pattern = ix.pattern + ix.reps, !.text = ix.text + 1, !.rep_off = 0]
      [] step_type.k = "SkipText" ->
            [ix EXCEPT !.text = ix.text + 1, !.rep_off = 0]
      [] step_type.k \in {"SkipPattern", "StartGroup", "EndGroup", "StartLeft"} ->
            [ix EXCEPT !.pattern = ix.pattern + ix.reps]
      [] step_type.k = "StartRight" ->
            [ix EXCEPT !.pattern = ix.pattern + step_type.off + ix.reps]
      [] step_type.k = "PassRight" ->
            [ix EXCEPT !.pattern = ix.pattern + step_type.off]
      [] step_type.k = "StartRepetition" ->
            [ix EXCEPT !.pattern = ix.pattern + ix.reps, !.reps = ix.reps + 1,
                       !.rep_off = ix.rep_off + 1]
      [] step_type.k = "EndRepetition" ->
            [ix EXCEPT !.pattern = ix.pattern + ix.reps, !.reps = ix.reps - 1,
                       !.rep_off = ix.rep_off - 1]
      [] step_type.k = "PassRepetition" ->
            [ix EXCEPT !.pattern = ix.pattern + step_type.off + ix.reps + 2]
      [] step_type.k = "RestartRepetition" ->
            [ix EXCEPT !.pattern = ix.pattern - step_type.off, !.reps = ix.reps - 1]

\* Config::step.  The fields are usize in the source; the subtractions are
\* carried out in the integers here and StepUnderflows tells when the
\* source's subtraction would leave usize.
ConfigStep(ix, step_type) ==
    CASE step_type.k = "Hit" ->
            [ix EXCEPT !.pattern = ix.pattern + ix.reps, !.text = ix.text + 1, !.rep_off = 0]
      [] step_type.k = "SkipText" ->
            [ix EXCEPT !.text = ix.text + 1, !.rep_off = 0]
      [] step_type.k \in {"SkipPattern", "StartGroup", "EndGroup", "StartLeft"} ->
            [ix EXCEPT !.pattern = ix.pattern + ix.reps]
      [] step_type.k = "StartRight" ->
            [ix EXCEPT !.pattern = ix.pattern + step_type.off + ix.reps]
      [] step_type.k = "PassRight" ->
            [ix EXCEPT !.pattern = ix.pattern + step_type.off]
      [] step_type.k = "StartRepetition" ->
            [ix EXCEPT !.pattern = ix.pattern + ix.reps, !.reps = ix.reps + 1,
                       !.rep_off = ix.rep_off + 1]
      [] step_type.k = "EndRepetition" ->
            [ix EXCEPT !.pattern = ix.pattern + ix.reps, !.reps = ix.reps - 1,
                       !.rep_off = ix.rep_off - 1]
      [] step_type.k = "PassRepetition" ->
            [ix EXCEPT !.pattern = ix.pattern + step_type.off + ix.reps + 1]
      [] step_type.k = "RestartRepetition" ->
            [ix EXCEPT !.pattern = ix.pattern - step_type.off, !.reps = ix.reps - 1]

\* A usize subtraction of Config::step went below 0
StepUnderflows(ix, step_type) ==
    LET next == ConfigStep(ix, step_type)
    IN  next.pattern < 0 \/ next.reps < 0 \/ next.rep_off < 0

(***************************************************************************)
(* Node: the search state of one lattice index.                            *)
(***************************************************************************)
\* Node::new
NodeNew ==
    [current |-> 0, parent |-> DefaultIx, score |-> 0, step_type |-> StHit,
     next |-> DefaultIx, step_types |-> <<>>]

\* Node::is_ready
is_ready(node) == node.current = 0

\* Node::is_working
is_working(node) == node.current > 0 /\ node.current <= Len(node.step_types)

\* Node::is_done
is_done(node) == node.current > Len(node.step_types)

\* Node::current_step_type (the caller has checked is_working)
current_step_type(node) == node.step_types[node.current]

\* Node::initialise without the arm that makes end_ix a dummy done node
NodeInitialiseNoEnd(node, end_ix, parent_ix, ix, opt_node_type) ==
    IF is_ready(node)
    THEN IF opt_node_type.k # "None"
         THEN [err |-> "",
               node |-> [node EXCEPT !.parent = parent_ix,
                                     !.current = node.current + 1,
                                     !.step_types = NodeTypeStepTypes(opt_node_type)]]
         ELSE [err |-> "NoNodeType", node |-> node]
    ELSE [err |-> "CannotInitialiseNode", node |-> node]

\* Node::initialise without the record of the parent that expanded the node
NodeInitialiseForgetsParent(node, end_ix, parent_ix, ix, opt_node_type) ==
    IF is_ready(node)
    THEN IF opt_node_type.k # "None"
         THEN [err |-> "",
               node |-> [node EXCEPT !.current = node.current + 1,
                                     !.step_types = NodeTypeStepTypes(opt_node_type)]]
         ELSE IF ix = end_ix
         THEN [err |-> "",
               node |-> [node EXCEPT !.current = node.current + 1]]
         ELSE [err |-> "NoNodeType", node |-> node]
    ELSE [err |-> "CannotInitialiseNode", node |-> node]

\* Node::initialise recording the node's own index as its parent
NodeInitialiseRecordsSelf(node, end_ix, parent_ix, ix, opt_node_type) ==
    IF is_ready(node)
    THEN IF opt_node_type.k # "None"
         THEN [err |-> "",
               node |-> [node EXCEPT !.parent = ix,
                                     !.current = node.current + 1,
                                     !.step_types = NodeTypeStepTypes(opt_node_type)]]
         ELSE IF ix = end_ix
         THEN [err |-> "",
               node |-> [node EXCEPT !.parent = ix, !.current = node.current + 1]]
         ELSE [err |-> "NoNodeType", node |-> node]
    ELSE [err |-> "CannotInitialiseNode", node |-> node]

\* Node::initialise leaving the cursor of the node at 0
NodeInitialiseStaysReady(node, end_ix, parent_ix, ix, opt_node_type) ==
    IF is_ready(node)
    THEN IF opt_node_type.k # "None"
         THEN [err |-> "",
               node |-> [node EXCEPT !.parent = parent_ix,
                                     !.step_types = NodeTypeStepTypes(opt_node_type)]]
         ELSE IF ix = end_ix
         THEN [err |-> "",
               node |-> [node EXCEPT !.parent = parent_ix]]
         ELSE [err |-> "NoNodeType", node |-> node]
    ELSE [err |-> "CannotInitialiseNode", node |-> node]

\* Node::initialise: err is "" for Ok(())
NodeInitialise(node, end_ix, parent_ix, ix, opt_node_type) ==
    IF is_ready(node)
    THEN IF opt_node_type.k # "None"
         THEN [err |-> "",
               node |-> [node EXCEPT !.parent = parent_ix,
                                     !.current = node.current + 1,
                                     !.step_types = NodeTypeStepTypes(opt_node_type)]]
         ELSE IF ix = end_ix
         THEN [err |-> "",
               node |-> [node EXCEPT !.parent = parent_ix, !.current = node.current + 1]]
         ELSE [err |-> "NoNodeType", node |-> node]
    ELSE [err |-> "CannotInitialiseNode", node |-> node]

\* Node::update keeping the first step type tried, whatever the later scores
NodeUpdateFirstWins(node, new_child, ix, child_score) ==
    IF is_working(node)
    THEN LET parent_ix == node.parent
             step_type == current_step_type(node)
             new_score == child_score + StepTypeCost(step_type)
         IN  IF node.current <= 1
             THEN [err |-> "", parent |-> parent_ix,
                   node |-> [node EXCEPT !.step_type = step_type,
                                         !.score = new_score,
                                         !.next = new_child,
                                         !.current = node.current + 1]]
             ELSE [err |-> "", parent |-> parent_ix,
                   node |-> [node EXCEPT !.current = node.current + 1]]
    ELSE [err |-> "CannotUpdateNode", parent |-> DefaultIx, node |-> node]

\* Node::update recording the child's score without the cost of the step
NodeUpdateNoCost(node, new_child, ix, child_score) ==
    IF is_working(node)
    THEN LET parent_ix == node.parent
             step_type == current_step_type(node)
             new_score == child_score
         IN  IF node.current <= 1 \/ new_score < node.score
             THEN [err |-> "", parent |-> parent_ix,
                   node |-> [node EXCEPT !.step_type = step_type,
                                         !.score = new_score,
                                         !.next = new_child,
                                         !.current = node.current + 1]]
             ELSE [err |-> "", parent |-> parent_ix,
                   node |-> [node EXCEPT !.current = node.current + 1]]
    ELSE [err |-> "CannotUpdateNode", parent |-> DefaultIx, node |-> node]

\* Node::update replacing the recorded step kind on an equal score as well
NodeUpdateLastWins(node, new_child, ix, child_score) ==
    IF is_working(node)
    THEN LET parent_ix == node.parent
             step_type == current_step_type(node)
             new_score == child_score + StepTypeCost(step_type)
         IN  IF node.current <= 1 \/ new_score <= node.score
             THEN [err |-> "", parent |-> parent_ix,
                   node |-> [node EXCEPT !.step_type = step_type,
                                         !.score = new_score,
                                         !.next = new_child,
                                         !.current = node.current + 1]]
             ELSE [err |-> "", parent |-> parent_ix,
                   node |-> [node EXCEPT !.current = node.current + 1]]
    ELSE [err |-> "CannotUpdateNode", parent |-> DefaultIx, node |-> node]

\* Node::update recording the better score and step kind without the child
NodeUpdateKeepsNext(node, new_child, ix, child_score) ==
    IF is_working(node)
    THEN LET parent_ix == node.parent
             step_type == current_step_type(node)
             new_score == child_score + StepTypeCost(step_type)
         IN  IF node.current <= 1
             THEN [err |-> "", parent |-> parent_ix,
                   node |-> [node EXCEPT !.step_type = step_type,
                                         !.score = new_score,
                                         !.next = new_child,
                                         !.current = node.current + 1]]
             ELSE IF new_score < node.score
             THEN [err |-> "", parent |-> parent_ix,
                   node |-> [node EXCEPT !.step_type = step_type,
                                         !.score = new_score,
                                         !.current = node.current + 1]]
             ELSE [err |-> "", parent |-> parent_ix,
                   node |-> [node EXCEPT !.current = node.current + 1]]
    ELSE [err |-> "CannotUpdateNode", parent |-> DefaultIx, node |-> node]

\* Node::update moving the cursor two step kinds on
NodeUpdateSkipsAhead(node, new_child, ix, child_score) ==
    IF is_working(node)
    THEN LET parent_ix == node.parent
             step_type == current_step_type(node)
             new_score == child_score + StepTypeCost(step_type)
         IN  IF node.current <= 1 \/ new_score < node.score
             THEN [err |-> "", parent |-> parent_ix,
                   node |-> [node EXCEPT !.step_type = step_type,
                                         !.score = new_score,
                                         !.next = new_child,
                                         !.current = node.current + 2]]
             ELSE [err |-> "", parent |-> parent_ix,
                   node |-> [node EXCEPT !.current = node.current + 2]]
    ELSE [err |-> "CannotUpdateNode", parent |-> DefaultIx, node |-> node]

\* Node::update moving the cursor of a node that it rejects
NodeUpdateRejectsLate(node, new_child, ix, child_score) ==
    IF is_working(node)
    THEN LET parent_ix == node.parent
             step_type == current_step_type(node)
             new_score == child_score + StepTypeCost(step_type)
         IN  IF node.current <= 1 \/ new_score < node.score
             THEN [err |-> "", parent |-> parent_ix,
                   node |-> [node EXCEPT !.step_type = step_type,
                                         !.score = new_score,
                                         !.next = new_child,
                                         !.current = node.current + 1]]
             ELSE [err |-> "", parent |-> parent_ix,
                   node |-> [node EXCEPT !.current = node.current + 1]]
    ELSE [err |-> "CannotUpdateNode", parent |-> DefaultIx,
          node |-> [node EXCEPT !.current = node.current + 1]]

\* Node::update: err is "" for Ok(parent)
NodeUpdate(node, new_child, ix, child_score) ==
    IF is_working(node)
    THEN LET parent_ix == node.parent
             step_type == current_step_type(node)
             new_score == child_score + StepTypeCost(step_type)
         IN  IF node.current <= 1 \/ new_score < node.score
             THEN [err |-> "", parent |-> parent_ix,
                   node |-> [node EXCEPT !.step_type = step_type,
                                         !.score = new_score,
                                         !.next = new_child,
                                         !.current = node.current + 1]]
             ELSE [err |-> "", parent |-> parent_ix,
                   node |-> [node EXCEPT !.current = node.current + 1]]
    ELSE [err |-> "CannotUpdateNode", parent |-> DefaultIx, node |-> node]

(***************************************************************************)
(* State: the dense table of nodes.                                        *)
(***************************************************************************)
\* State::new
StateNew(conf) ==
    LET pattern_len == Len(conf.pattern) + 1
        text_len == Len(conf.text) + 1
        num_nodes == text_len * pattern_len
    IN  [nodes |-> [i \in 0..(num_nodes - 1) |-> NodeNew], pattern_len |-> pattern_len]

\* State::node without the replica that rep_off selects
StateNodeNoRepOff(state, ix) ==
    ix.text * state.pattern_len + ix.pattern

\* State::node
StateNode(state, ix) ==
    ix.text * state.pattern_len + ix.pattern + ix.rep_off

\* The bounds check of Vec indexing in State::get and State::get_mut
InTable(state, ix) ==
    StateNode(state, ix) \in DOMAIN state.nodes

\* State::get
StateGet(state, ix) == state.nodes[StateNode(state, ix)]

\* State::get_mut followed by the assignment of one node
StateSet(state, ix, node) ==
    [state EXCEPT !.nodes[StateNode(state, ix)] = node]

(***************************************************************************)
(* The recursive solver: LatticeSolution::solve_lattice over the sparse    *)
(* state of MapSolution.                                                   *)
(***************************************************************************)
\* Patt::End
PattEnd == Flat("End", NoChar, {}, 0)

\* Text::Lit and Text::End
TextLit(c) == [k |-> "Lit", c |-> c]
TextEnd == [k |-> "End", c |-> NoChar]

\* Patt::extract: extract_custom with rep_incr = 0.  Patt::pattern_patts and
\* Patt::elem_patts are the same code as their FlatPattern namesakes.
PattExtract(pattern) ==
    single_patt(pattern_patts(<<>>, pattern, 1, 0), PattEnd, 1)

\* Text::extract
TextExtract(atoms) ==
    [n \in 1..Len(atoms) |-> TextLit(atoms[n])] \o <<TextEnd>>

\* map_solution::Ix
MapIx(pix, tix, kix) == [pix |-> pix, tix |-> tix, kix |-> kix]

\* map_solution::Ix::can_restart
map_can_restart(ix) == ix.kix = 0

\* map_solution::Config::new
MapConfigNew(pattern, text) ==
    [pattern |-> PattExtract(pattern), text |-> TextExtract(text)]

\* The bounds checks of the Vec indexing in map_solution::Config::get
MapConfigGetPanics(mconf, ix) ==
    \/ ix.pix \notin 0..(Len(mconf.pattern) - 1)
    \/ ix.tix \notin 0..(Len(mconf.text) - 1)

\* map_solution::Config::get
MapConfigGet(mconf, ix) ==
    [patt |-> mconf.pattern[ix.pix + 1], text |-> mconf.text[ix.tix + 1]]

\* map_solution::Config::start
MapConfigStart(mconf) == MapIx(0, 0, 0)

\* map_solution::Config::end
MapConfigEnd(mconf) == MapIx(Len(mconf.pattern) - 1, Len(mconf.text) - 1, 0)

\* lattice_solution::Next; step is "None" for Option::None
LatticeNext(cost, next, step) == [cost |-> cost, next |-> next, step |-> step]

\* The step functions of map_solution::Config
skip_text(ix) ==
    LatticeNext(1, [ix EXCEPT !.tix = ix.tix + 1, !.kix = 0], "SkipText")
skip_patt(ix) ==
    LatticeNext(1, [ix EXCEPT !.pix = ix.pix + 1], "SkipPattern")
hit(ix) ==
    LatticeNext(0, [ix EXCEPT !.pix = ix.pix + 1, !.tix = ix.tix + 1, !.kix = 0], "Hit")
start_group(ix) ==
    LatticeNext(0, [ix EXCEPT !.pix = ix.pix + 1], "StartCapture")
stop_group(ix) ==
    LatticeNext(0, [ix EXCEPT !.pix = ix.pix + 1], "StopCapture")
start_left(ix) ==
    LatticeNext(0, [ix EXCEPT !.pix = ix.pix + 1], "None")
start_right(ix, off) ==
    LatticeNext(0, [ix EXCEPT !.pix = ix.pix + off + 1], "None")
pass_right(ix, off) ==
    LatticeNext(0, [ix EXCEPT !.pix = ix.pix + off], "None")
start_repetition(ix) ==
    LatticeNext(0, [ix EXCEPT !.pix = ix.pix + 1, !.kix = ix.kix + 1], "None")
end_repetition(ix) ==
    LatticeNext(0, [ix EXCEPT !.pix = ix.pix + 1, !.kix = ix.kix - 1], "None")
pass_repetition(ix, off) ==
    LatticeNext(0, [ix EXCEPT !.pix = ix.pix + off + 1], "None")
restart_repetition(ix, off) ==
    LatticeNext(0, [ix EXCEPT !.pix = ix.pix - off], "None")

\* lattice_solution::Node and lattice_solution::Done; NoDone is Option::None
LatticeNode(k, score, next, step) ==
    [k |-> k, score |-> score, next |-> next, step |-> step]
LatticeReady == LatticeNode("Ready", 0, MapIx(0, 0, 0), "None")
LatticeWorking == LatticeNode("Working", 0, MapIx(0, 0, 0), "None")
LatticeDone(score, next, step) == LatticeNode("Done", score, next, step)
NoDone == LatticeNode("None", 0, MapIx(0, 0, 0), "None")

\* Done::optimal handing back the later of the two
DoneOptimalTakesRight(left, right) ==
    right

\* Done::optimal
DoneOptimal(left, right) ==
    IF left.score <= right.score THEN left ELSE right

\* LatticeSolution::update
update(current, new) ==
    IF current.k = "None" THEN new ELSE DoneOptimal(current, new)

\* map_solution::State::new: the empty HashMap
MapStateNew == [ix \in {} |-> LatticeReady]

\* map_solution::State::get
MapStateGet(nodes, ix) ==
    IF ix \in DOMAIN nodes THEN nodes[ix] ELSE LatticeReady

\* map_solution::State::set
MapStateSet(nodes, ix, node) ==
    [k \in (DOMAIN nodes) \cup {ix} |-> IF k = ix THEN node ELSE nodes[k]]

\* LatticeSolution::solve_ix, the three matches on (patt, text), text and
\* patt: the leads the node at ix tries, in the order it tries them
SolveIxLeads(mconf, ix) ==
    LET patt == MapConfigGet(mconf, ix).patt
        text == MapConfigGet(mconf, ix).text
        on_both ==
            IF text.k = "Lit" /\ patt.k = "Class" /\ ClassMatches(patt.cs, text.c)
            THEN <<hit(ix)>>
            ELSE IF text.k = "Lit" /\ patt.k = "Lit" /\ patt.c = text.c
            THEN <<hit(ix)>>
            ELSE <<>>
        on_text ==
            IF text.k = "Lit" THEN <<skip_text(ix)>> ELSE <<>>
        on_patt ==
            CASE patt.k \in {"Lit", "Class"} -> <<skip_patt(ix)>>
              [] patt.k = "GroupStart" -> <<start_group(ix)>>
              [] patt.k = "GroupEnd" -> <<stop_group(ix)>>
              [] patt.k = "AlternativeLeft" ->
                    <<start_left(ix), start_right(ix, patt.off)>>
              [] patt.k = "AlternativeRight" -> <<pass_right(ix, patt.off)>>
              [] patt.k = "RepetitionEnd" /\ map_can_restart(ix) ->
                    <<restart_repetition(ix, patt.off)>>
              [] patt.k = "RepetitionEnd" /\ ~map_can_restart(ix) ->
                    <<end_repetition(ix)>>
              [] patt.k = "RepetitionStart" ->
                    <<start_repetition(ix), pass_repetition(ix, patt.off)>>
              [] patt.k = "End" -> <<>>
    IN  on_both \o on_text \o on_patt

\* What solve_ix hands back: Err(err) when err is not "", and the state left
SolveIxResult(err, nodes, done) == [err |-> err, nodes |-> nodes, done |-> done]

RECURSIVE solve_ix(_, _, _, _)
RECURSIVE SolveIxTry(_, _, _, _, _)

\* LatticeSolution::solve_ix
solve_ix(mconf, nodes, end_ix, lead) ==
    LET ix == lead.next
        node == MapStateGet(nodes, ix)
    IN  IF node.k = "Working"
        THEN SolveIxResult("InfiniteLoop", nodes, NoDone)
        ELSE IF node.k = "Done"
        THEN SolveIxResult("", nodes, LatticeDone(node.score + lead.cost, ix, lead.step))
        ELSE IF MapConfigGetPanics(mconf, ix)
        THEN SolveIxResult("Panic", MapStateSet(nodes, ix, LatticeWorking), NoDone)
        ELSE LET tried == SolveIxTry(mconf, MapStateSet(nodes, ix, LatticeWorking), end_ix,
                                     SolveIxLeads(mconf, ix), NoDone)
                 score == IF tried.done.k = "None"
                          THEN LatticeDone(0, end_ix, "None")
                          ELSE tried.done
             IN  IF tried.err # ""
                 THEN tried
                 ELSE IF tried.done.k = "None" /\ ix # end_ix
                 THEN SolveIxResult("Blocked", tried.nodes, NoDone)
                 ELSE SolveIxResult("", MapStateSet(tried.nodes, ix, score),
                                    LatticeDone(score.score + lead.cost, ix, lead.step))

\* LatticeSolution::solve_ix: the recursive calls on the leads, one after the
\* other; the first Err is handed up by the ? operator
SolveIxTry(mconf, nodes, end_ix, leads, maybe_score) ==
    IF leads = <<>>
    THEN SolveIxResult("", nodes, maybe_score)
    ELSE LET outcome == solve_ix(mconf, nodes, end_ix, Head(leads))
         IN  IF outcome.err # ""
             THEN outcome
             ELSE SolveIxTry(mconf, outcome.nodes, end_ix, Tail(leads),
                             update(maybe_score, outcome.done))

\* Step::with on the payloads of the index the step leaves
LatticeStepWith(step, patt, text) ==
    [k |-> step,
     patt |-> IF step \in {"Hit", "SkipPattern"} THEN patt ELSE PattEnd,
     text |-> IF step \in {"Hit", "SkipText"} THEN text ELSE TextEnd]

RECURSIVE LatticeTrace(_, _, _, _, _, _)

\* LatticeSolution::solve_lattice: the reconstruction loop.  fuel bounds the
\* iterations; the loop of the source does not end on a chain that cycles.
LatticeTrace(mconf, nodes, end_ix, from, trace, fuel) ==
    LET done == MapStateGet(nodes, from)
    IN  IF done.k # "Done" \/ from = end_ix
        THEN [err |-> "", from |-> from, trace |-> trace]
        ELSE IF fuel = 0
        THEN [err |-> "Diverges", from |-> from, trace |-> trace]
        ELSE IF done.step # "None" /\ MapConfigGetPanics(mconf, from)
        THEN [err |-> "Panic", from |-> from, trace |-> trace]
        ELSE LatticeTrace(mconf, nodes, end_ix, done.next,
                          IF done.step # "None"
                          THEN Append(trace, LatticeStepWith(done.step,
                                                 MapConfigGet(mconf, from).patt,
                                                 MapConfigGet(mconf, from).text))
                          ELSE trace,
                          fuel - 1)

\* LatticeSolution::solve_lattice
solve_lattice(pattern, text) ==
    LET mconf == MapConfigNew(pattern, text)
        start_ix == MapConfigStart(mconf)
        end_ix == MapConfigEnd(mconf)
        solved == solve_ix(mconf, MapStateNew, end_ix, LatticeNext(0, start_ix, "None"))
        start_node == MapStateGet(solved.nodes, start_ix)
        walked == LatticeTrace(mconf, solved.nodes, end_ix, start_ix, <<>>,
                               Cardinality(DOMAIN solved.nodes) + 1)
        failed(err) == [result |-> err, score |-> 0, trace |-> <<>>, nodes |-> solved.nodes]
    IN  IF solved.err # "" THEN failed(solved.err)
        ELSE IF start_node.k # "Done" THEN failed("IncompleteFinalState")
        ELSE IF walked.err # "" THEN failed(walked.err)
        ELSE IF walked.from # end_ix THEN failed("IncompleteFinalState")
        ELSE [result |-> "Ok", score |-> start_node.score, trace |-> walked.trace,
              nodes |-> solved.nodes]

\* Solution::trace of a LatticeSolution: the payloads as Match and char
LatticeSolutionTrace(trace_lattice) ==
    [n \in DOMAIN trace_lattice |->
        LET s == trace_lattice[n]
        IN  [k |-> s.k,
             patt |-> IF s.k \notin {"Hit", "SkipPattern"} THEN NoMatch
                      ELSE IF s.patt.k = "Lit" THEN MatchLit(s.patt.c)
                      ELSE MatchClass(s.patt.cs),
             text |-> IF s.k \in {"Hit", "SkipText"} THEN s.text.c ELSE NoChar]]

\* Solution::trace of a LatticeSolution panics on a payload that is no match
LatticeSolutionTracePanics(trace_lattice) ==
    \E n \in DOMAIN trace_lattice :
        \/ trace_lattice[n].k \in {"Hit", "SkipPattern"}
           /\ trace_lattice[n].patt.k \notin {"Lit", "Class"}
        \/ trace_lattice[n].k \in {"Hit", "SkipText"}
           /\ trace_lattice[n].text.k # "Lit"

(***************************************************************************)
(* The pattern as parsed, and desugar.  The source of desugar is not among *)
(* the files of the repository at hand; it follows the desugaring rules of *)
(* the specification.                                                      *)
(***************************************************************************)
\* Repetition::maximum = None
NoMaximum == 0 - 1

\* Element as parse_impl builds it
UserElem(k, c, cs, a, b, minimum, maximum) ==
    [k |-> k, c |-> c, cs |-> cs, a |-> a, b |-> b, minimum |-> minimum,
     maximum |-> maximum]
UserLit(c) == UserElem("Lit", c, {}, <<>>, <<>>, 0, NoMaximum)
UserClass(cs) == UserElem("Class", NoChar, cs, <<>>, <<>>, 0, NoMaximum)
UserCapture(inner) == UserElem("Capture", NoChar, {}, inner, <<>>, 0, NoMaximum)
UserRepetition(minimum, maximum, inner) ==
    UserElem("Repetition", NoChar, {}, inner, <<>>, minimum, maximum)
UserAlternative(p1, p2) == UserElem("Alternative", NoChar, {}, p1, p2, 0, NoMaximum)

RECURSIVE Copies(_, _)
\* n copies of the pattern p, concatenated
Copies(p, n) == IF n <= 0 THEN <<>> ELSE p \o Copies(p, n - 1)

RECURSIVE BoundedTail(_, _)
\* the right-folded alternation (empty | P (empty | P (...))), nested depth deep
BoundedTail(p, depth) ==
    IF depth <= 0 THEN <<>>
    ELSE <<ElemAlternative(<<>>, p \o BoundedTail(p, depth - 1))>>

RECURSIVE DesugarPatternKeepsBounds(_)
RECURSIVE DesugarElementKeepsBounds(_)

\* Pattern::desugar over DesugarElementKeepsBounds
DesugarPatternKeepsBounds(p) ==
    IF p = <<>> THEN <<>>
    ELSE DesugarElementKeepsBounds(Head(p)) \o DesugarPatternKeepsBounds(Tail(p))

\* Element::desugar leaving a repetition that has a maximum as it is
DesugarElementKeepsBounds(e) ==
    CASE e.k = "Lit" -> <<ElemLit(e.c)>>
      [] e.k = "Class" -> <<ElemClass(e.cs)>>
      [] e.k = "Capture" -> <<ElemCapture(DesugarPatternKeepsBounds(e.a))>>
      [] e.k = "Alternative" ->
            <<ElemAlternative(DesugarPatternKeepsBounds(e.a),
                              DesugarPatternKeepsBounds(e.b))>>
      [] e.k = "Repetition" ->
            LET inner == DesugarPatternKeepsBounds(e.a)
            IN  IF e.maximum = NoMaximum
                THEN Copies(inner, e.minimum) \o <<ElemRepetition(inner)>>
                ELSE <<UserRepetition(e.minimum, e.maximum, inner)>>

RECURSIVE DesugarPattern(_)
RECURSIVE DesugarElement(_)

\* Pattern::desugar
DesugarPattern(p) ==
    IF p = <<>> THEN <<>>
    ELSE DesugarElement(Head(p)) \o DesugarPattern(Tail(p))

\* Element::desugar: the core elements that stand for one element
DesugarElement(e) ==
    CASE e.k = "Lit" -> <<ElemLit(e.c)>>
      [] e.k = "Class" -> <<ElemClass(e.cs)>>
      [] e.k = "Capture" -> <<ElemCapture(DesugarPattern(e.a))>>
      [] e.k = "Alternative" ->
            <<ElemAlternative(DesugarPattern(e.a), DesugarPattern(e.b))>>
      [] e.k = "Repetition" ->
            LET inner == DesugarPattern(e.a)
            IN  Copies(inner, e.minimum)
                    \o (IF e.maximum = NoMaximum
                        THEN <<ElemRepetition(inner)>>
                        ELSE BoundedTail(inner, e.maximum - e.minimum))

(***************************************************************************)
(* DiffOutput: the trace rendered as a character by character diff.  A     *)
(* string is the sequence of its characters.                               *)
(***************************************************************************)
\* TODO make this configurable
ANY == 63                                           \* '?'

\* Chunk::Same and Chunk::Diff
Chunk(k, same_text, taken, added) ==
    [k |-> k, text |-> same_text, taken |-> taken, added |-> added]
NoChunk == Chunk("None", <<>>, <<>>, <<>>)          \* chunks.last_mut() = None

\* Chunk::new_same, Chunk::new_added, Chunk::new_taken
new_same(c) == Chunk("Same", <<c>>, <<>>, <<>>)
new_added(c) == Chunk("Diff", <<>>, <<>>, <<c>>)
new_taken(c) == Chunk("Diff", <<>>, <<c>>, <<>>)

\* DiffOutput::new with a pattern skip that follows a text skip opening a
\* chunk of its own
DiffOutputPushInOrder(chunks, step) ==
    LET n == Len(chunks)
        current_chunk == IF n = 0 THEN NoChunk ELSE chunks[n]
        taken_char == IF step.patt.k = "Lit" THEN step.patt.c ELSE ANY
    IN  CASE step.k = "Hit" ->
                IF current_chunk.k = "Same"
                THEN [chunks EXCEPT ![n].text = Append(@, step.text)]
                ELSE Append(chunks, new_same(step.text))
          [] step.k = "SkipText" ->
                IF current_chunk.k = "Diff"
                THEN [chunks EXCEPT ![n].added = Append(@, step.text)]
                ELSE Append(chunks, new_added(step.text))
          [] step.k = "SkipPattern" ->
                IF current_chunk.k = "Diff" /\ current_chunk.added = <<>>
                THEN [chunks EXCEPT ![n].taken = Append(@, taken_char)]
                ELSE Append(chunks, new_taken(taken_char))
          [] OTHER -> chunks

\* DiffOutput::new: the match on (step, current_chunk) of one iteration
DiffOutputPush(chunks, step) ==
    LET n == Len(chunks)
        current_chunk == IF n = 0 THEN NoChunk ELSE chunks[n]
        taken_char == IF step.patt.k = "Lit" THEN step.patt.c ELSE ANY
    IN  CASE step.k = "Hit" ->
                IF current_chunk.k = "Same"
                THEN [chunks EXCEPT ![n].text = Append(@, step.text)]
                ELSE Append(chunks, new_same(step.text))
          [] step.k = "SkipText" ->
                IF current_chunk.k = "Diff"
                THEN [chunks EXCEPT ![n].added = Append(@, step.text)]
                ELSE Append(chunks, new_added(step.text))
          [] step.k = "SkipPattern" ->
                IF current_chunk.k = "Diff"
                THEN [chunks EXCEPT ![n].taken = Append(@, taken_char)]
                ELSE Append(chunks, new_taken(taken_char))
          [] OTHER -> chunks

RECURSIVE DiffOutputFold(_, _)
\* DiffOutput::new: the loop over the trace
DiffOutputFold(chunks, steps) ==
    IF steps = <<>> THEN chunks
    ELSE DiffOutputFold(DiffOutputPush(chunks, Head(steps)), Tail(steps))

\* DiffOutput::new
DiffOutputNew(the_score, the_trace) == DiffOutputFold(<<>>, the_trace)

\* Display::fmt for DiffOutput: one chunk
ChunkFmt(chunk) ==
    IF chunk.k = "Same" THEN chunk.text
    ELSE IF chunk.added = <<>> THEN <<91, 45>> \o chunk.taken \o <<45, 93>>
    ELSE IF chunk.taken = <<>> THEN <<123, 43>> \o chunk.added \o <<43, 125>>
    ELSE <<91, 45>> \o chunk.taken \o <<45, 93>> \o <<123, 43>> \o chunk.added \o <<43, 125>>

RECURSIVE DiffOutputFmt(_)
\* Display::fmt for DiffOutput
DiffOutputFmt(chunks) ==
    IF chunks = <<>> THEN <<>>
    ELSE ChunkFmt(Head(chunks)) \o DiffOutputFmt(Tail(chunks))

(***************************************************************************)
(* The problems the model solves: every core pattern of at most MaxPatSize *)
(* elements (nested ones counted) over one literal and one class, every    *)
(* pattern of at most MaxLitLen literals, and some deeper patterns; every  *)
(* text of at most MaxTextLen characters, and some longer texts.           *)
(***************************************************************************)
Leaves == {ElemLit(97), ElemClass(ClassNotA)}

RECURSIVE PatternsOfSize(_)
RECURSIVE ElemsOfSize(_)

PatternsOfSize(n) ==
    IF n = 0 THEN {<<>>}
    ELSE UNION {{<<e>> \o p : e \in ElemsOfSize(k), p \in PatternsOfSize(n - k)} : k \in 1..n}

ElemsOfSize(n) ==
    IF n = 0 THEN {}
    ELSE (IF n = 1 THEN Leaves ELSE {})
         \cup {ElemCapture(p) : p \in PatternsOfSize(n - 1)}
         \cup {ElemRepetition(p) : p \in PatternsOfSize(n - 1)}
         \cup UNION {{ElemAlternative(p1, p2) :
                        p1 \in PatternsOfSize(k), p2 \in PatternsOfSize(n - 1 - k)} :
                     k \in 0..(n - 1)}

SizedPatterns == UNION {PatternsOfSize(n) : n \in 0..MaxPatSize}

LitPatterns ==
    UNION {[1..n -> {ElemLit(97), ElemLit(98)}] : n \in 0..MaxLitLen}

\* ab|ba, (a|b)*, a*b*, (a*b)*, ((a)*)*b, .(a|.*), (a*|b)*a, (.a)*, (a(b)*)a
ExtraPatterns ==
    { <<ElemAlternative(<<ElemLit(97), ElemLit(98)>>, <<ElemLit(98), ElemLit(97)>>)>>,
      <<ElemRepetition(<<ElemAlternative(<<ElemLit(97)>>, <<ElemLit(98)>>)>>)>>,
      <<ElemRepetition(<<ElemLit(97)>>), ElemRepetition(<<ElemLit(98)>>)>>,
      <<ElemRepetition(<<ElemRepetition(<<ElemLit(97)>>), ElemLit(98)>>)>>,
      <<ElemRepetition(<<ElemRepetition(<<ElemCapture(<<ElemLit(97)>>)>>)>>), ElemLit(98)>>,
      <<ElemClass(ClassAny),
        ElemAlternative(<<ElemLit(97)>>, <<ElemRepetition(<<ElemClass(ClassAny)>>)>>)>>,
      <<ElemRepetition(<<ElemAlternative(<<ElemRepetition(<<ElemLit(97)>>)>>,
                                         <<ElemLit(98)>>)>>),
        ElemLit(97)>>,
      <<ElemRepetition(<<ElemClass(ClassAny), ElemLit(97)>>)>>,
      <<ElemCapture(<<ElemLit(97), ElemRepetition(<<ElemCapture(<<ElemLit(98)>>)>>)>>),
        ElemLit(97)>>,
      <<ElemRepetition(<<ElemLit(98)>>)>> }

Patterns == SizedPatterns \cup LitPatterns \cup ExtraPatterns

\* aba, bab
ExtraTexts == {<<97, 98, 97>>, <<98, 97, 98>>}

Texts == UNION {[1..n -> Chars] : n \in 0..MaxTextLen} \cup ExtraTexts

(***************************************************************************)
(* The problems that start from a parsed pattern: a repetition with bounds *)
(* of one literal or class against a run of one character it accepts, the  *)
(* parsed patterns of at most MaxUserSize elements, none with an empty     *)
(* group, body or branch, and the two scenarios of the integration tests   *)
(* readme_year and readme_hello_world.                                     *)
(***************************************************************************)
MaxRepBound == 2
MaxRepText == 4
MaxUserSize == 2

ClassDigit == {<<48, 57>>}                          \* [0-9]

Problem(p, t) == [pattern |-> p, text |-> t]

\* the bounds a repetition can carry: minimum <= maximum, or no maximum
RepBounds ==
    {<<m, mx>> \in (0..MaxRepBound) \X ((0..MaxRepBound) \cup {NoMaximum}) :
        mx = NoMaximum \/ m <= mx}

RunOf(c, k) == [n \in 1..k |-> c]

BoundedProblems ==
    {Problem(<<UserRepetition(b[1], b[2], <<pc[1]>>)>>, RunOf(pc[2], k)) :
        b \in RepBounds,
        pc \in {<<UserLit(97), 97>>, <<UserClass(ClassAny), 97>>,
                <<UserClass(ClassNotA), 98>>},
        k \in 0..MaxRepText}

RECURSIVE UserPatternsOfSize(_)
RECURSIVE UserElemsOfSize(_)

UserPatternsOfSize(n) ==
    IF n = 0 THEN {<<>>}
    ELSE UNION {{<<e>> \o p : e \in UserElemsOfSize(k), p \in UserPatternsOfSize(n - k)} :
                k \in 1..n}

UserElemsOfSize(n) ==
    IF n = 0 THEN {}
    ELSE IF n = 1 THEN {UserLit(97)}
    ELSE {UserCapture(p) : p \in UserPatternsOfSize(n - 1)}
         \cup {UserRepetition(b[1], b[2], p) : b \in RepBounds, p \in UserPatternsOfSize(n - 1)}
         \cup UNION {{UserAlternative(p1, p2) :
                        p1 \in UserPatternsOfSize(k), p2 \in UserPatternsOfSize(n - 1 - k)} :
                     k \in 1..(n - 2)}

\* (a{1,2}){0,1}, (a{0,1}|a)b, ((a){2})*
ExtraUserPatterns ==
    { <<UserRepetition(0, 1, <<UserCapture(<<UserRepetition(1, 2, <<UserLit(97)>>)>>)>>)>>,
      <<UserCapture(<<UserAlternative(<<UserRepetition(0, 1, <<UserLit(97)>>)>>,
                                      <<UserLit(97)>>)>>),
        UserLit(98)>>,
      <<UserRepetition(0, NoMaximum,
                       <<UserRepetition(2, 2, <<UserCapture(<<UserLit(97)>>)>>)>>)>> }

UserProblems ==
    {Problem(p, t) :
        p \in (UNION {UserPatternsOfSize(n) : n \in 0..MaxUserSize}) \cup ExtraUserPatterns,
        t \in {<<>>, <<97>>, <<97, 98>>}}

\* [0-9]{4} against '69
ReadmeYear ==
    Problem(<<UserRepetition(4, 4, <<UserClass(ClassDigit)>>)>>, <<39, 54, 57>>)

\* Helloo* World against Helloooooo world
ReadmeHelloWorld ==
    Problem(<<UserLit(72), UserLit(101), UserLit(108), UserLit(108), UserLit(111),
              UserRepetition(0, NoMaximum, <<UserLit(111)>>),
              UserLit(32), UserLit(87), UserLit(111), UserLit(114), UserLit(108),
              UserLit(100)>>,
            <<72, 101, 108, 108, 111, 111, 111, 111, 111, 111, 32, 119, 111, 114, 108, 100>>)

CliProblems == BoundedProblems \cup UserProblems \cup {ReadmeYear, ReadmeHelloWorld}

(***************************************************************************)
(* The state of one call of TableSolution::solve.                          *)
(***************************************************************************)
VARIABLES
    pattern,        \* the core pattern handed to solve
    text,           \* the text handed to solve
    conf,           \* Config
    state,          \* State: the node table
    loop_state,     \* LoopState of calculate_optimal_path
    loop_counter,   \* loop_counter of calculate_optimal_path
    pc,             \* "loop", "score", "trace" or "done"
    score,          \* the score read from the start node
    from,           \* the index the reconstruction has reached
    trace,          \* the trace built so far
    result,         \* "Running", "Ok", an Error variant or "Panic"
    map_result,     \* "NotRun", then what MapSolution::solve returned
    map_score,      \* MapSolution.score
    map_trace,      \* MapSolution.trace
    map_nodes,      \* the HashMap of map_solution::State when solve returned
    problem,        \* the pattern as parsed, before desugar
    output,         \* the rendered DiffOutput, NoOutput before it is rendered
    max_steps       \* the ceiling of loop_counter in calculate_optimal_path

map_vars == <<map_result, map_score, map_trace, map_nodes>>

cli_vars == <<problem, output, max_steps>>

vars == <<pattern, text, conf, state, loop_state, loop_counter, pc, score, from, trace,
          result, map_vars, cli_vars>>

\* TODO make this max configurable
MaxSteps == 1000000000

\* no pattern has been parsed: solve is called with a core pattern
NoProblem == <<>>

\* nothing has been rendered yet
NoOutput == <<0 - 1>>

Down(parent, current) ==
    [k |-> "Down", parent |-> parent, current |-> current, child |-> DefaultIx]
Back(current, child) ==
    [k |-> "Back", parent |-> DefaultIx, current |-> current, child |-> child]

Step(k, patt, c) == [k |-> k, patt |-> patt, text |-> c]

Init ==
    /\ pattern \in Patterns
    /\ text \in Texts
    /\ conf = ConfigNew(pattern, text)
    /\ state = StateNew(conf)
    /\ loop_state = Down(DefaultIx, ConfigStart(conf))
    /\ loop_counter = 0
    /\ pc = "loop"
    /\ score = 0
    /\ from = DefaultIx
    /\ trace = <<>>
    /\ result = "Running"
    /\ map_result = "NotRun"
    /\ map_score = 0
    /\ map_trace = <<>>
    /\ map_nodes = MapStateNew
    /\ problem = NoProblem
    /\ output = NoOutput
    /\ max_steps = MaxSteps

\* solve returns Err(err), or panics when err is "Panic"
Stop(err) ==
    /\ pc' = "done"
    /\ result' = err

\* calculate_optimal_path, from current_ix to the end of the iteration
LoopTail(new_state, new_parent) ==
    LET start_ix == ConfigStart(conf)
        current_ix == loop_state.current
        final_state == StateGet(new_state, current_ix)
    IN  /\ state' = new_state
        /\ IF current_ix = start_ix /\ is_done(final_state)
           THEN pc' = "score" /\ UNCHANGED <<loop_state, result>>
           ELSE IF is_done(final_state)
           THEN /\ loop_state' = Back(new_parent, current_ix)
                /\ UNCHANGED <<pc, result>>
           ELSE IF is_working(final_state)
           THEN LET step_type == current_step_type(final_state)
                IN  IF StepUnderflows(current_ix, step_type)
                    THEN Stop("Panic") /\ UNCHANGED loop_state
                    ELSE /\ loop_state' = Down(current_ix, ConfigStep(current_ix, step_type))
                         /\ UNCHANGED <<pc, result>>
           ELSE Stop("NoNodeProgress") /\ UNCHANGED loop_state

\* One iteration of the work loop: Down into a node that is Ready
DownReady ==
    /\ pc = "loop"
    /\ loop_state.k = "Down"
    /\ InTable(state, loop_state.current)
    /\ is_ready(StateGet(state, loop_state.current))
    /\ loop_counter' = loop_counter + 1
    /\ IF loop_counter + 1 >= max_steps
       THEN Stop("ExceededMaxSteps") /\ UNCHANGED <<state, loop_state>>
       ELSE LET current == loop_state.current
                got == ConfigGet(conf, current)
                opt_node_type == NodeTypeGet(got.flat, got.text, current)
            IN  \E init \in {NodeInitialise(StateGet(state, current), ConfigEnd(conf),
                                       loop_state.parent, current, opt_node_type)} :
                IF init.err # ""
                THEN Stop(init.err) /\ UNCHANGED <<state, loop_state>>
                ELSE LoopTail(StateSet(state, current, init.node), loop_state.parent)
    /\ UNCHANGED <<map_vars, cli_vars>>
    /\ UNCHANGED <<pattern, text, conf, score, from, trace>>

\* One iteration of the work loop: Down into a node that is not Ready
DownSeen ==
    /\ pc = "loop"
    /\ loop_state.k = "Down"
    /\ ~(InTable(state, loop_state.current) /\ is_ready(StateGet(state, loop_state.current)))
    /\ loop_counter' = loop_counter + 1
    /\ IF loop_counter + 1 >= max_steps
       THEN Stop("ExceededMaxSteps") /\ UNCHANGED <<state, loop_state>>
       ELSE IF ~InTable(state, loop_state.current)
       THEN Stop("Panic") /\ UNCHANGED <<state, loop_state>>
       ELSE LoopTail(state, loop_state.parent)
    /\ UNCHANGED <<map_vars, cli_vars>>
    /\ UNCHANGED <<pattern, text, conf, score, from, trace>>

\* One iteration of the work loop: Back from a child into its parent
BackUpdate ==
    /\ pc = "loop"
    /\ loop_state.k = "Back"
    /\ loop_counter' = loop_counter + 1
    /\ IF loop_counter + 1 >= max_steps
       THEN Stop("ExceededMaxSteps") /\ UNCHANGED <<state, loop_state>>
       ELSE IF ~InTable(state, loop_state.child) \/ ~InTable(state, loop_state.current)
       THEN Stop("Panic") /\ UNCHANGED <<state, loop_state>>
       ELSE LET new_child == loop_state.child
                child_node == StateGet(state, new_child)
            IN  \E upd \in {NodeUpdate(StateGet(state, loop_state.current), new_child,
                                  loop_state.current, child_node.score)} :
                IF ~is_done(child_node)
                THEN Stop("CannotGetNodeField") /\ UNCHANGED <<state, loop_state>>
                ELSE IF upd.err # ""
                THEN Stop(upd.err) /\ UNCHANGED <<state, loop_state>>
                ELSE LoopTail(StateSet(state, loop_state.current, upd.node), upd.parent)
    /\ UNCHANGED <<map_vars, cli_vars>>
    /\ UNCHANGED <<pattern, text, conf, score, from, trace>>

\* solve, after calculate_optimal_path returned Ok: read the score
ReadScore ==
    /\ pc = "score"
    /\ IF ~InTable(state, ConfigStart(conf))
       THEN Stop("Panic") /\ UNCHANGED <<score, from>>
       ELSE LET start_node == StateGet(state, ConfigStart(conf))
            IN  IF is_done(start_node)
                THEN /\ score' = start_node.score
                     /\ from' = ConfigStart(conf)
                     /\ pc' = "trace"
                     /\ UNCHANGED result
                ELSE Stop("IncompleteFinalState") /\ UNCHANGED <<score, from>>
    /\ UNCHANGED <<map_vars, cli_vars>>
    /\ UNCHANGED <<pattern, text, conf, state, loop_state, loop_counter, trace>>

\* The payloads a trace step of kind k takes at the index of (flat, c);
\* the closures of solve panic on a payload that is missing
StepNeedsPatt(k) == k \in {"Hit", "SkipPattern"}
StepNeedsText(k) == k \in {"Hit", "SkipText"}

FinalStep(k, flat, c) ==
    Step(k,
         IF ~StepNeedsPatt(k) THEN NoMatch
         ELSE IF flat.k = "Lit" THEN MatchLit(flat.c) ELSE MatchClass(flat.cs),
         IF StepNeedsText(k) THEN c ELSE NoChar)

FinalStepPanics(k, flat, c) ==
    \/ StepNeedsPatt(k) /\ flat.k \notin {"Lit", "Class"}
    \/ StepNeedsText(k) /\ c = NoChar

\* solve: one iteration of the reconstruction loop
TraceStep ==
    /\ pc = "trace"
    /\ InTable(state, from)
    /\ is_done(StateGet(state, from))
    /\ from # ConfigEnd(conf)
    /\ LET node == StateGet(state, from)
           got == ConfigGet(conf, from)
           k == StepTypeStep(node.step_type)
       IN  IF k # "None" /\ FinalStepPanics(k, got.flat, got.text)
           THEN Stop("Panic") /\ UNCHANGED <<trace, from>>
           ELSE /\ trace' = IF k # "None"
                            THEN Append(trace, FinalStep(k, got.flat, got.text))
                            ELSE trace
                /\ from' = node.next
                /\ UNCHANGED <<pc, result>>
    /\ UNCHANGED <<map_vars, cli_vars>>
    /\ UNCHANGED <<pattern, text, conf, state, loop_state, loop_counter, score>>

\* solve: the reconstruction loop breaks and solve returns
TraceEnd ==
    /\ pc = "trace"
    /\ ~(InTable(state, from) /\ is_done(StateGet(state, from)) /\ from # ConfigEnd(conf))
    /\ IF ~InTable(state, from)
       THEN Stop("Panic")
       ELSE IF from # ConfigEnd(conf)
       THEN Stop("IncompleteFinalState")
       ELSE Stop("Ok")
    /\ UNCHANGED <<map_vars, cli_vars>>
    /\ UNCHANGED <<pattern, text, conf, state, loop_state, loop_counter, score, from, trace>>

\* MapSolution::solve on the problem TableSolution::solve has returned from
MapSolve ==
    /\ pc = "done"
    /\ map_result = "NotRun"
    /\ \E solution \in {solve_lattice(pattern, text)} :
           /\ map_result' = solution.result
           /\ map_score' = solution.score
           /\ map_trace' = solution.trace
           /\ map_nodes' = solution.nodes
    /\ UNCHANGED <<pattern, text, conf, state, loop_state, loop_counter, pc, score, from,
                   trace, result, cli_vars>>

\* run_impl: desugar the parsed pattern and enter TableSolution::solve
Desugar ==
    /\ pc = "desugar"
    /\ pattern' = DesugarPattern(problem)
    /\ conf' = ConfigNew(pattern', text)
    /\ state' = StateNew(conf')
    /\ loop_state' = Down(DefaultIx, ConfigStart(conf'))
    /\ pc' = "loop"
    /\ UNCHANGED <<text, loop_counter, score, from, trace, result, map_vars, cli_vars>>

\* run_impl: render the solution that solve returned
Output ==
    /\ pc = "done"
    /\ result = "Ok"
    /\ output = NoOutput
    /\ output' = DiffOutputFmt(DiffOutputNew(score, trace))
    /\ UNCHANGED <<pattern, text, conf, state, loop_state, loop_counter, pc, score, from,
                   trace, result, map_vars, problem, max_steps>>

Next ==
    \/ DownReady
    \/ DownSeen
    \/ BackUpdate
    \/ ReadScore
    \/ TraceStep
    \/ TraceEnd
    \/ MapSolve

Spec == Init /\ [][Next]_vars

(***************************************************************************)
(* calculate_optimal_path alone: the work loop of solve, up to the         *)
(* iteration that leaves the loop or returns an error.                     *)
(***************************************************************************)
LoopNext ==
    \/ DownReady
    \/ DownSeen
    \/ BackUpdate

LoopSpec == Init /\ [][LoopNext]_vars

\* `loop { loop_counter += 1; ...`: the loop counts one more iteration
LoopIteration ==
    /\ pc = "loop"
    /\ loop_counter' = loop_counter + 1

\* The problems on which the whole node table is examined in every state of
\* the loop: the patterns of fewer than MaxPatSize elements, the deeper
\* patterns, and (), ()*, (()*)*, (|a)*, (a|)*b and ((|)*)* with their empty
\* groups, bodies and branches.
HollowPatterns ==
    { <<ElemCapture(<<>>)>>,
      <<ElemRepetition(<<>>)>>,
      <<ElemRepetition(<<ElemRepetition(<<>>)>>)>>,
      <<ElemRepetition(<<ElemAlternative(<<>>, <<ElemLit(97)>>)>>)>>,
      <<ElemRepetition(<<ElemAlternative(<<ElemLit(97)>>, <<>>)>>), ElemLit(98)>>,
      <<ElemRepetition(<<ElemRepetition(<<ElemAlternative(<<>>, <<>>)>>)>>)>> }

TablePatterns ==
    UNION {PatternsOfSize(n) : n \in 0..(MaxPatSize - 1)}
        \cup ExtraPatterns \cup HollowPatterns

TableInit ==
    /\ pattern \in TablePatterns
    /\ text \in Texts
    /\ conf = ConfigNew(pattern, text)
    /\ state = StateNew(conf)
    /\ loop_state = Down(DefaultIx, ConfigStart(conf))
    /\ loop_counter = 0
    /\ pc = "loop"
    /\ score = 0
    /\ from = DefaultIx
    /\ trace = <<>>
    /\ result = "Running"
    /\ map_result = "NotRun"
    /\ map_score = 0
    /\ map_trace = <<>>
    /\ map_nodes = MapStateNew
    /\ problem = NoProblem
    /\ output = NoOutput
    /\ max_steps = MaxSteps

TableSpec == TableInit /\ [][LoopNext]_vars

\* solve on the same problems, followed by the recursive solver
TableSolveSpec == TableInit /\ [][Next]_vars

\* The loop of calculate_optimal_path is sequential code that nothing
\* suspends: while the loop has not been left, its next iteration is taken.
TableLiveSpec == TableInit /\ [][LoopNext]_vars /\ WF_loop_counter(LoopIteration)

(***************************************************************************)
(* run_impl of fuzzy_cli: from the parsed pattern to the rendered diff.    *)
(***************************************************************************)
CliInit ==
    /\ \E p \in CliProblems : problem = p.pattern /\ text = p.text
    /\ pattern = <<>>
    /\ conf = ConfigNew(pattern, text)
    /\ state = StateNew(conf)
    /\ loop_state = Down(DefaultIx, ConfigStart(conf))
    /\ loop_counter = 0
    /\ pc = "desugar"
    /\ score = 0
    /\ from = DefaultIx
    /\ trace = <<>>
    /\ result = "Running"
    /\ map_result = "NotRun"
    /\ map_score = 0
    /\ map_trace = <<>>
    /\ map_nodes = MapStateNew
    /\ output = NoOutput
    /\ max_steps = MaxSteps

\* run_impl solves with TableSolution::solve
CliNext ==
    \/ Desugar
    \/ DownReady
    \/ DownSeen
    \/ BackUpdate
    \/ ReadScore
    \/ TraceStep
    \/ TraceEnd
    \/ Output

CliSpec == CliInit /\ [][CliNext]_vars

(***************************************************************************)
(* The ceiling of the work loop is the literal of calculate_optimal_path,  *)
(* which no problem of this size comes near.  To see the loop give up, the *)
(* same solver runs here under every ceiling of at most MaxCeiling.        *)
(***************************************************************************)
MaxCeiling == 12

CeilingPatterns ==
    {<<>>, <<ElemLit(97)>>, <<ElemRepetition(<<ElemLit(97)>>)>>,
     <<ElemAlternative(<<ElemLit(97)>>, <<ElemClass(ClassNotA)>>)>>}

CeilingInit ==
    /\ pattern \in CeilingPatterns
    /\ text \in Texts
    /\ conf = ConfigNew(pattern, text)
    /\ state = StateNew(conf)
    /\ loop_state = Down(DefaultIx, ConfigStart(conf))
    /\ loop_counter = 0
    /\ pc = "loop"
    /\ score = 0
    /\ from = DefaultIx
    /\ trace = <<>>
    /\ result = "Running"
    /\ map_result = "NotRun"
    /\ map_score = 0
    /\ map_trace = <<>>
    /\ map_nodes = MapStateNew
    /\ problem = NoProblem
    /\ output = NoOutput
    /\ max_steps \in 1..MaxCeiling

CeilingSpec == CeilingInit /\ [][Next]_vars

(***************************************************************************)
(* DiffOutput::new is public and takes any trace: the traces of at most    *)
(* MaxTraceLen steps over hits, skips of two text characters, skips of two *)
(* literals and of a class, and capture markers, each rendered once.       *)
(***************************************************************************)
MaxTraceLen == 4

DiffSteps ==
    {Step("Hit", MatchLit(97), 97),
     Step("SkipText", NoMatch, 98),
     Step("SkipText", NoMatch, 99),
     Step("SkipPattern", MatchLit(100), NoChar),
     Step("SkipPattern", MatchLit(101), NoChar),
     Step("SkipPattern", MatchClass(ClassDigit), NoChar),
     Step("StartCapture", NoMatch, NoChar),
     Step("StopCapture", NoMatch, NoChar)}

DiffTraces == UNION {[1..n -> DiffSteps] : n \in 0..MaxTraceLen}

DiffInit ==
    /\ trace \in DiffTraces
    /\ score = Len(SelectSeq(trace, LAMBDA s : s.k \in {"SkipText", "SkipPattern"}))
    /\ pattern = <<>>
    /\ text = <<>>
    /\ conf = ConfigNew(pattern, text)
    /\ state = StateNew(conf)
    /\ loop_state = Down(DefaultIx, ConfigStart(conf))
    /\ loop_counter = 0
    /\ pc = "done"
    /\ from = DefaultIx
    /\ result = "Ok"
    /\ map_result = "NotRun"
    /\ map_score = 0
    /\ map_trace = <<>>
    /\ map_nodes = MapStateNew
    /\ problem = NoProblem
    /\ output = NoOutput
    /\ max_steps = MaxSteps

DiffNext == Output

DiffSpec == DiffInit /\ [][DiffNext]_vars

(***************************************************************************)
(* What solve has returned.                                                *)
(***************************************************************************)
Returned == pc = "done" /\ result = "Ok"

Min(S) == CHOOSE x \in S : \A y \in S : x <= y

\* a Lit or Class (of the pattern or of a trace step) accepts the character c
Accepts(m, c) ==
    \/ m.k = "Lit" /\ m.c = c
    \/ m.k = "Class" /\ ClassMatches(m.cs, c)

\* the trace steps of the kinds ks, in trace order
StepsOfKind(tr, ks) == SelectSeq(tr, LAMBDA s : s.k \in ks)

(***************************************************************************)
(* The cheapest alignment of a core pattern with the characters i+1..j of  *)
(* a text, by recursion on the structure of the pattern: a literal or a    *)
(* class is hit by one accepted character or skipped, a capture aligns its *)
(* inner pattern, an alternation one of its branches, a repetition any     *)
(* number of iterations of its inner pattern, a sequence its elements one  *)
(* after the other; every character that is not hit is skipped.  (An       *)
(* iteration that takes no character cannot lower the cost, so the         *)
(* iterations counted here take at least one.)                             *)
(***************************************************************************)
RECURSIVE PatCost(_, _, _, _)
RECURSIVE ElemCost(_, _, _, _)
RECURSIVE RepCost(_, _, _, _)

PatCost(p, t, i, j) ==
    IF p = <<>> THEN j - i
    ELSE Min({ElemCost(Head(p), t, i, m) + PatCost(Tail(p), t, m, j) : m \in i..j})

ElemCost(e, t, i, j) ==
    CASE e.k \in {"Lit", "Class"} ->
            IF \E n \in (i + 1)..j : Accepts(e, t[n]) THEN j - i - 1 ELSE j - i + 1
      [] e.k = "Capture" -> PatCost(e.a, t, i, j)
      [] e.k = "Alternative" -> Min({PatCost(e.a, t, i, j), PatCost(e.b, t, i, j)})
      [] e.k = "Repetition" -> RepCost(e.a, t, i, j)

RepCost(inner, t, i, j) ==
    Min({j - i} \cup
        {PatCost(inner, t, i, m) + RepCost(inner, t, m, j) : m \in (i + 1)..j})

OptimalCost(p, t) == PatCost(p, t, 0, Len(t))

HasKind(p, k) == \E n \in DOMAIN p : p[n].k = k

\* C1 (optimality): the score solve returns is the least number of skipped
\* pattern and text characters of any alignment of the pattern with the text.
Optimality ==
    Returned => score = OptimalCost(pattern, text)

\* a nested repetition was solved against a text that the pattern does not match
OptimalityWitness ==
    /\ Returned
    /\ score = 2
    /\ Len(text) = 2
    /\ \E n \in DOMAIN pattern :
          pattern[n].k = "Repetition" /\ HasKind(pattern[n].a, "Repetition")

\* C2 (trace-cost consistency): the score solve returns is the number of
\* SkipText and SkipPattern steps of the trace it returns.
TraceCostConsistency ==
    Returned => score = Len(StepsOfKind(trace, {"SkipText", "SkipPattern"}))

\* a returned trace holds steps of every cost: a Hit, both skips and a capture marker
TraceCostConsistencyWitness ==
    /\ Returned
    /\ \A k \in {"Hit", "SkipText", "SkipPattern", "StartCapture"} :
          StepsOfKind(trace, {k}) # <<>>

TextPayloads(tr) ==
    LET steps == StepsOfKind(tr, {"Hit", "SkipText"})
    IN  [n \in 1..Len(steps) |-> steps[n].text]

\* C3 (text coverage): the text payloads of the Hit and SkipText steps of a
\* returned trace, in trace order, are the characters of the text in order.
TextCoverage ==
    Returned => TextPayloads(trace) = text

\* a text of three characters came back as hits and skips mixed
TextCoverageWitness ==
    /\ Returned
    /\ Len(text) = 3
    /\ text[1] # text[2]
    /\ StepsOfKind(trace, {"Hit"}) # <<>>
    /\ StepsOfKind(trace, {"SkipText"}) # <<>>
    /\ TextPayloads(trace) = text

PatternPayloads(tr) ==
    LET steps == StepsOfKind(tr, {"Hit", "SkipPattern"})
    IN  [n \in 1..Len(steps) |-> steps[n].patt]

(***************************************************************************)
(* s is the sequence of the Lit and Class met on one walk through the      *)
(* pattern p: all of a sequence, the inner pattern of a capture, one       *)
(* branch of an alternation, any number of iterations of a repetition.     *)
(***************************************************************************)
RECURSIVE PatWalk(_, _)
RECURSIVE ElemWalk(_, _)

PatWalk(p, s) ==
    IF p = <<>> THEN s = <<>>
    ELSE \E m \in 0..Len(s) :
            /\ ElemWalk(Head(p), SubSeq(s, 1, m))
            /\ PatWalk(Tail(p), SubSeq(s, m + 1, Len(s)))

ElemWalk(e, s) ==
    CASE e.k = "Lit" -> s = <<MatchLit(e.c)>>
      [] e.k = "Class" -> s = <<MatchClass(e.cs)>>
      [] e.k = "Capture" -> PatWalk(e.a, s)
      [] e.k = "Alternative" -> PatWalk(e.a, s) \/ PatWalk(e.b, s)
      [] e.k = "Repetition" ->
            \/ s = <<>>
            \/ \E m \in 1..Len(s) :
                  /\ PatWalk(e.a, SubSeq(s, 1, m))
                  /\ ElemWalk(e, SubSeq(s, m + 1, Len(s)))

\* C4 (pattern coverage): the pattern payloads of the Hit and SkipPattern
\* steps of a returned trace, in trace order, are the Lit and Class met on
\* one walk through the pattern.
PatternCoverage ==
    Returned => PatWalk(pattern, PatternPayloads(trace))

\* a repetition was iterated twice and an alternation took its right branch
PatternCoverageWitness ==
    /\ Returned
    /\ pattern = <<ElemRepetition(<<ElemAlternative(<<ElemLit(97)>>, <<ElemLit(98)>>)>>)>>
    /\ PatternPayloads(trace) = <<MatchLit(98), MatchLit(97)>>

(***************************************************************************)
(* The chain of recorded next links from ix: the indices before end_ix, in *)
(* order, and whether the chain reaches end_ix through Done nodes within   *)
(* fuel links.                                                             *)
(***************************************************************************)
RECURSIVE ChainFrom(_, _)

ChainFrom(ix, fuel) ==
    IF ~InTable(state, ix) \/ fuel = 0 THEN [ok |-> FALSE, ixs |-> <<>>]
    ELSE IF ~is_done(StateGet(state, ix)) THEN [ok |-> FALSE, ixs |-> <<>>]
    ELSE IF ix = ConfigEnd(conf) THEN [ok |-> TRUE, ixs |-> <<>>]
    ELSE LET rest == ChainFrom(StateGet(state, ix).next, fuel - 1)
         IN  [ok |-> rest.ok, ixs |-> <<ix>> \o rest.ixs]

\* a chain without a cycle has at most one link per slot of the table
StartChain == ChainFrom(ConfigStart(conf), Cardinality(DOMAIN state.nodes) + 1)

RECURSIVE SumCost(_)
SumCost(ixs) ==
    IF ixs = <<>> THEN 0
    ELSE StepTypeCost(StateGet(state, Head(ixs)).step_type) + SumCost(Tail(ixs))

\* the indices of the chain whose recorded step kind emits a trace step
EmittingIxs ==
    SelectSeq(StartChain.ixs,
              LAMBDA ix : StepTypeStep(StateGet(state, ix).step_type) # "None")

\* C5 (hit soundness): every Hit step of a returned trace pairs a character
\* with a Lit or Class that accepts it, and both payloads are the ones at
\* the lattice index whose node recorded the Hit.
HitSoundness ==
    Returned =>
        /\ Len(EmittingIxs) = Len(trace)
        /\ \A n \in DOMAIN trace :
              trace[n].k = "Hit" =>
                 LET ix == EmittingIxs[n]
                     flat == FlatGet(conf.pattern, ix.pattern)
                 IN  /\ Accepts(trace[n].patt, trace[n].text)
                     /\ StateGet(state, ix).step_type = StHit
                     /\ flat.k \in {"Lit", "Class"}
                     /\ trace[n].patt = [k |-> flat.k, c |-> flat.c, cs |-> flat.cs]
                     /\ trace[n].text = TextGet(conf.text, ix.text)

\* a returned trace hits a literal and hits a class
HitSoundnessWitness ==
    /\ Returned
    /\ \E n, m \in DOMAIN trace :
          /\ trace[n].k = "Hit" /\ trace[n].patt.k = "Lit"
          /\ trace[m].k = "Hit" /\ trace[m].patt.k = "Class"

InternalErrors ==
    {"NoNodeType", "NoNodeProgress", "CannotInitialiseNode", "CannotUpdateNode",
     "CannotGetNodeField", "IncompleteFinalState", "Blocked", "InfiniteLoop",
     "Diverges", "Panic"}

\* C6 (the engine always returns something): neither solver ever ends in an
\* internal error, each returns Ok; the work loop never descends into an index
\* other than end_ix that has no node type, that is, no step kind to try; and
\* every index other than end_ix that the recursive solver has visited has a
\* lead to try.
AlwaysReturns ==
    /\ result \notin InternalErrors
    /\ pc = "done" => result = "Ok"
    /\ (pc = "loop" /\ loop_state.k = "Down" /\ loop_state.current # ConfigEnd(conf)) =>
          LET got == ConfigGet(conf, loop_state.current)
          IN  NodeTypeGet(got.flat, got.text, loop_state.current) # NoNodeType
    /\ map_result \in {"NotRun", "Ok"}
    /\ LET mconf == MapConfigNew(pattern, text)
       IN  \A ix \in DOMAIN map_nodes :
              /\ ~MapConfigGetPanics(mconf, ix)
              /\ ix # MapConfigEnd(mconf) => SolveIxLeads(mconf, ix) # <<>>

\* both solvers returned for a repetition of a repetition whose body is empty
AlwaysReturnsWitness ==
    /\ Returned
    /\ map_result = "Ok"
    /\ Cardinality(DOMAIN map_nodes) > 4
    /\ pattern = <<ElemRepetition(<<ElemRepetition(<<>>)>>)>>
    /\ Len(text) = 2

\* C7 (solver post-condition): once calculate_optimal_path has returned Ok,
\* the node at start_ix is Done, the next links lead from start_ix to end_ix
\* through Done nodes only, and the costs of the step kinds recorded along
\* that chain add up to the score stored at start_ix.
SolverPostCondition ==
    (pc \in {"score", "trace"} \/ Returned) =>
        /\ InTable(state, ConfigStart(conf))
        /\ is_done(StateGet(state, ConfigStart(conf)))
        /\ StartChain.ok
        /\ SumCost(StartChain.ixs) = StateGet(state, ConfigStart(conf)).score

\* calculate_optimal_path has just returned with a chain of six links that costs 2
SolverPostConditionWitness ==
    /\ pc = "score"
    /\ StartChain.ok
    /\ Len(StartChain.ixs) >= 6
    /\ StateGet(state, ConfigStart(conf)).score = 2

Max(S) == CHOOSE x \in S : \A y \in S : y <= x

\* the length of the longest common subsequence of x and y
RECURSIVE LCS(_, _)
LCS(x, y) ==
    IF x = <<>> \/ y = <<>> THEN 0
    ELSE IF Head(x) = Head(y) THEN 1 + LCS(Tail(x), Tail(y))
    ELSE Max({LCS(Tail(x), y), LCS(x, Tail(y))})

OnlyLits(p) == \A n \in DOMAIN p : p[n].k = "Lit"
LitChars(p) == [n \in DOMAIN p |-> p[n].c]

\* C8: for a pattern of literals only, the score is |p| + |t| - 2 * LCS(p, t).
LiteralScoreIsLCS ==
    (Returned /\ OnlyLits(pattern)) =>
        score = Len(pattern) + Len(text) - 2 * LCS(LitChars(pattern), text)

\* aba against bab: the longest common subsequence has length 2
LiteralScoreIsLCSWitness ==
    /\ Returned
    /\ pattern = <<ElemLit(97), ElemLit(98), ElemLit(97)>>
    /\ text = <<98, 97, 98>>
    /\ score = 2

\* C9 (empty-pattern identity): for the empty pattern the score is |t| and the
\* trace is the |t| SkipText steps that carry the characters of t in order.
EmptyPatternIdentity ==
    (Returned /\ pattern = <<>>) =>
        /\ score = Len(text)
        /\ trace = [n \in 1..Len(text) |-> Step("SkipText", NoMatch, text[n])]

\* the empty pattern was solved against a text of three characters
EmptyPatternIdentityWitness ==
    /\ Returned
    /\ pattern = <<>>
    /\ Len(text) = 3
    /\ Len(trace) = 3

\* the least number of Lit and Class on a walk through the pattern p
RECURSIVE MinWalk(_)
MinWalk(p) ==
    IF p = <<>> THEN 0
    ELSE LET e == Head(p)
         IN  (CASE e.k \in {"Lit", "Class"} -> 1
                [] e.k = "Capture" -> MinWalk(e.a)
                [] e.k = "Alternative" -> Min({MinWalk(e.a), MinWalk(e.b)})
                [] e.k = "Repetition" -> 0)
             + MinWalk(Tail(p))

\* C10 (empty-text identity): for the empty text the score is the least
\* number of Lit and Class on a walk through the pattern, and the trace has
\* no Hit and no SkipText step.
EmptyTextIdentity ==
    (Returned /\ text = <<>>) =>
        /\ score = MinWalk(pattern)
        /\ StepsOfKind(trace, {"Hit", "SkipText"}) = <<>>

\* the empty text was solved against .(a|.*): the class is skipped, the
\* right branch of the alternation taken and its repetition passed
EmptyTextIdentityWitness ==
    /\ Returned
    /\ text = <<>>
    /\ Len(pattern) = 2
    /\ pattern[2].k = "Alternative"
    /\ HasKind(pattern[2].b, "Repetition")
    /\ score = 1
    /\ Len(trace) = 1


(***************************************************************************)
(* Unbounded repetition of one literal.                                    *)
(***************************************************************************)
\* the pattern c* for a literal c
StarOfLit(p) ==
    /\ Len(p) = 1
    /\ p[1].k = "Repetition"
    /\ Len(p[1].a) = 1
    /\ p[1].a[1].k = "Lit"

CountOther(t, c) == Cardinality({n \in DOMAIN t : t[n] # c})

\* C11 (unbounded repetition of one literal): for the pattern c* the score is
\* the number of characters of the text that differ from c, and the trace has
\* one step per character of the text: a Hit of c for every c, a SkipText for
\* every other character.
StarOfLitScore ==
    (Returned /\ StarOfLit(pattern)) =>
        LET c == pattern[1].a[1].c
        IN  /\ score = CountOther(text, c)
            /\ Len(trace) = Len(text)
            /\ \A n \in DOMAIN trace :
                  trace[n] = IF text[n] = c
                             THEN Step("Hit", MatchLit(c), c)
                             ELSE Step("SkipText", NoMatch, text[n])

\* a* against aba has returned score 1
StarOfLitScoreWitness ==
    /\ Returned
    /\ pattern = <<ElemRepetition(<<ElemLit(97)>>)>>
    /\ text = <<97, 98, 97>>
    /\ score = 1


(***************************************************************************)
(* The lattice indices that the step kinds lead to from the start index.   *)
(***************************************************************************)
\* the step kinds available at ix, in the order the node tries them
StepTypesAt(ix) ==
    IF ix = ConfigEnd(conf) THEN <<>>
    ELSE LET got == ConfigGet(conf, ix)
         IN  NodeTypeStepTypes(NodeTypeGet(got.flat, got.text, ix))

Successors(ix) ==
    {ConfigStep(ix, StepTypesAt(ix)[n]) : n \in DOMAIN StepTypesAt(ix)}

RECURSIVE ReachFrom(_, _)
ReachFrom(frontier, seen) ==
    IF frontier = {} THEN seen
    ELSE LET new == (UNION {Successors(ix) : ix \in frontier}) \ seen
         IN  ReachFrom(new, seen \cup new)

ReachableIxs == ReachFrom({ConfigStart(conf)}, {ConfigStart(conf)})

\* what a node at ix pays for its n-th step kind: the cost of the step plus
\* the score of the child it leads to
TotalAt(ix, n) ==
    StepTypeCost(StepTypesAt(ix)[n])
        + StateGet(state, ConfigStep(ix, StepTypesAt(ix)[n])).score

\* the place of a step kind in the order of the transition table
TableRank(k) ==
    CASE k = "Hit" -> 1
      [] k = "SkipPattern" -> 2
      [] k = "SkipText" -> 3
      [] k = "StartLeft" -> 4
      [] k = "StartRight" -> 5
      [] k = "StartRepetition" -> 6
      [] k = "PassRepetition" -> 7
      [] OTHER -> 8

Acyclicity ==
    /\ (pc = "loop" /\ loop_state.k = "Down" /\ InTable(state, loop_state.current)) =>
          ~is_working(StateGet(state, loop_state.current))
    /\ map_result # "InfiniteLoop"
    /\ pc = "score" =>
          \A ix \in ReachableIxs : ix \notin ReachFrom(Successors(ix), Successors(ix))

\* the work loop has finished for ((a)*)*b, a repetition whose body is a
\* repetition and can match the empty string, with a restart on the way
AcyclicityWitness ==
    /\ pc = "score"
    /\ pattern = <<ElemRepetition(<<ElemRepetition(<<ElemCapture(<<ElemLit(97)>>)>>)>>),
                   ElemLit(98)>>
    /\ Len(text) = 2
    /\ \E ix \in ReachableIxs \ {ConfigEnd(conf)} :
          \E n \in DOMAIN StepTypesAt(ix) : StepTypesAt(ix)[n].k = "RestartRepetition"


(***************************************************************************)
(* Repetition with bounds.                                                 *)
(***************************************************************************)
\* the parsed pattern P{m,M} or P{m,} for one literal or class P
BoundedOfOne(p) ==
    /\ Len(p) = 1
    /\ p[1].k = "Repetition"
    /\ Len(p[1].a) = 1
    /\ p[1].a[1].k \in {"Lit", "Class"}

\* the text is a run of one character that the literal or class e accepts
RunAccepted(e, t) ==
    \A n \in DOMAIN t :
        /\ t[n] = t[1]
        /\ IF e.k = "Lit" THEN e.c = t[n] ELSE ClassMatches(e.cs, t[n])

\* C12 (bounded repetition after desugaring): for the parsed pattern P{m,M},
\* P one literal or class, against a run of k characters that P accepts, the
\* score is m - k when k < m, 0 when m <= k <= M, and k - M when k > M; with
\* no maximum it is m - k when k < m and 0 otherwise.
BoundedRepetitionScore ==
    (Returned /\ BoundedOfOne(problem) /\ RunAccepted(problem[1].a[1], text)) =>
        LET m == problem[1].minimum
            mx == problem[1].maximum
            k == Len(text)
        IN  score = IF k < m THEN m - k
                    ELSE IF mx = NoMaximum \/ k <= mx THEN 0
                    ELSE k - mx

\* a{1,2} against aaaa has returned score 2, by way of the desugared pattern
BoundedRepetitionScoreWitness ==
    /\ Returned
    /\ problem = <<UserRepetition(1, 2, <<UserLit(97)>>)>>
    /\ pattern = <<ElemLit(97), ElemAlternative(<<>>, <<ElemLit(97)>>)>>
    /\ text = <<97, 97, 97, 97>>
    /\ score = 2


(***************************************************************************)
(* The scenarios of the integration tests.                                 *)
(***************************************************************************)
\* run_impl has rendered the diff of problem p
Rendered(p) ==
    /\ problem = p.pattern
    /\ text = p.text
    /\ output # NoOutput

\* [-??-]{+'+}69
ReadmeYearDiff == <<91, 45, 63, 63, 45, 93, 123, 43, 39, 43, 125, 54, 57>>

\* C14 as claimed: [0-9]{4} against '69 returns score 4 and the rendered diff
\* [-??-]{+'+}69.
ReadmeYearClaimed ==
    Rendered(ReadmeYear) => score = 4 /\ output = ReadmeYearDiff

\* C14 (scenario 5), amended: [0-9]{4} against '69 returns score 3, two
\* skipped classes and one skipped character, and the rendered diff
\* [-??-]{+'+}69.
ReadmeYearResult ==
    /\ (pc = "done" /\ problem = ReadmeYear.pattern /\ text = ReadmeYear.text) =>
          result = "Ok" /\ score = 3
    /\ Rendered(ReadmeYear) => output = ReadmeYearDiff

\* the diff of [0-9]{4} against '69 has been rendered
ReadmeYearResultWitness ==
    /\ Rendered(ReadmeYear)
    /\ pattern = <<ElemClass(ClassDigit), ElemClass(ClassDigit), ElemClass(ClassDigit),
                   ElemClass(ClassDigit)>>
    /\ Len(trace) = 5

\* Helloooooo [-W-]{+w+}orld
ReadmeHelloWorldDiff ==
    <<72, 101, 108, 108, 111, 111, 111, 111, 111, 111, 32, 91, 45, 87, 45, 93, 123, 43,
      119, 43, 125, 111, 114, 108, 100>>

\* C15 as claimed: Helloo* World against Helloooooo world returns score 1 and
\* the rendered diff Helloooooo [-W-]{+w+}orld.
ReadmeHelloWorldClaimed ==
    Rendered(ReadmeHelloWorld) => score = 1 /\ output = ReadmeHelloWorldDiff

\* C15 (scenario 1), amended: Helloo* World against Helloooooo world returns
\* score 2, the skipped W and the skipped w, and the rendered diff
\* Helloooooo [-W-]{+w+}orld.
ReadmeHelloWorldResult ==
    /\ (pc = "done" /\ problem = ReadmeHelloWorld.pattern
            /\ text = ReadmeHelloWorld.text) =>
          result = "Ok" /\ score = 2
    /\ Rendered(ReadmeHelloWorld) => output = ReadmeHelloWorldDiff

\* the diff of Helloo* World against Helloooooo world has been rendered
ReadmeHelloWorldResultWitness ==
    /\ Rendered(ReadmeHelloWorld)
    /\ Len(pattern) = 12
    /\ Len(StepsOfKind(trace, {"Hit"})) = 15


(***************************************************************************)
(* The shape of a desugared pattern.                                       *)
(***************************************************************************)
RECURSIVE OnlyCore(_)
\* every node of p is a core element: a Repetition holds only its body
OnlyCore(p) ==
    \A n \in DOMAIN p :
        /\ DOMAIN p[n] = {"k", "c", "cs", "a", "b"}
        /\ p[n].k \in {"Lit", "Class", "Capture", "Repetition", "Alternative"}
        /\ OnlyCore(p[n].a)
        /\ OnlyCore(p[n].b)

RECURSIVE NoEmptyBranch(_)
\* no Alternative of p has an empty branch
NoEmptyBranch(p) ==
    \A n \in DOMAIN p :
        /\ p[n].k = "Alternative" => p[n].a # <<>> /\ p[n].b # <<>>
        /\ NoEmptyBranch(p[n].a)
        /\ NoEmptyBranch(p[n].b)

RECURSIVE EmptyLeftBranches(_)
\* the number of Alternatives of p whose left branch is empty
EmptyLeftBranches(p) ==
    IF p = <<>> THEN 0
    ELSE (IF Head(p).k = "Alternative" /\ Head(p).a = <<>> THEN 1 ELSE 0)
            + EmptyLeftBranches(Head(p).a) + EmptyLeftBranches(Head(p).b)
            + EmptyLeftBranches(Tail(p))

\* C17 as claimed: the desugared pattern contains no bounded repetition and
\* no alternative with an empty branch.
DesugarInvariantClaimed ==
    pc # "desugar" => OnlyCore(pattern) /\ NoEmptyBranch(pattern)

\* C17 (desugaring invariant), amended: the desugared pattern contains no
\* bounded repetition, every Repetition node holds only its body; it does
\* contain alternatives with an empty branch: P{m,M} for one literal or class
\* P and a finite M desugars to m copies of P and M - m nested alternatives
\* whose left branch is empty.
DesugarInvariant ==
    pc # "desugar" =>
        /\ OnlyCore(pattern)
        /\ (BoundedOfOne(problem) /\ problem[1].maximum # NoMaximum) =>
              /\ EmptyLeftBranches(pattern) = problem[1].maximum - problem[1].minimum
              /\ Len(pattern) = problem[1].minimum
                    + (IF problem[1].maximum > problem[1].minimum THEN 1 ELSE 0)

\* a{0,2} has been desugared to (|a(|a))
DesugarInvariantWitness ==
    /\ pc = "loop"
    /\ problem = <<UserRepetition(0, 2, <<UserLit(97)>>)>>
    /\ pattern = <<ElemAlternative(<<>>,
                      <<ElemLit(97), ElemAlternative(<<>>, <<ElemLit(97)>>)>>)>>


(***************************************************************************)
(* The rendering of a trace by its maximal runs of skips.                  *)
(***************************************************************************)
IsSkip(s) == s.k \in {"SkipText", "SkipPattern"}

\* the trace without its capture markers
Visible(tr) == SelectSeq(tr, LAMBDA s : s.k = "Hit" \/ IsSkip(s))

RECURSIVE RunLength(_)
\* the length of the run of skips that steps starts with
RunLength(steps) ==
    IF steps = <<>> \/ ~IsSkip(Head(steps)) THEN 0
    ELSE 1 + RunLength(Tail(steps))

\* the pattern characters skipped in a run, a class as '?'
TakenOf(run) ==
    LET skipped == SelectSeq(run, LAMBDA s : s.k = "SkipPattern")
    IN  [n \in 1..Len(skipped) |->
            IF skipped[n].patt.k = "Class" THEN 63 ELSE skipped[n].patt.c]

\* the text characters skipped in a run
AddedOf(run) ==
    LET skipped == SelectSeq(run, LAMBDA s : s.k = "SkipText")
    IN  [n \in 1..Len(skipped) |-> skipped[n].text]

\* "[-taken-]" then "{+added+}", an empty side left out
Groups(taken, added) ==
    (IF taken = <<>> THEN <<>> ELSE <<91, 45>> \o taken \o <<45, 93>>)
        \o (IF added = <<>> THEN <<>> ELSE <<123, 43>> \o added \o <<43, 125>>)

RECURSIVE RenderRuns(_)
RenderRuns(steps) ==
    IF steps = <<>> THEN <<>>
    ELSE IF Head(steps).k = "Hit" THEN <<Head(steps).text>> \o RenderRuns(Tail(steps))
    ELSE LET n == RunLength(steps)
         IN  Groups(TakenOf(SubSeq(steps, 1, n)), AddedOf(SubSeq(steps, 1, n)))
                \o RenderRuns(SubSeq(steps, n + 1, Len(steps)))

\* C18 (diff rendering consolidates skips): the rendering of any trace is,
\* capture markers ignored, the text character of each Hit as it is and, for
\* each maximal run of skips, one group [-taken-] of the skipped pattern
\* characters in order (a class as '?') followed by one group {+added+} of the
\* skipped text characters in order, whatever their interleaving, an empty
\* side left out.
DiffConsolidation ==
    output # NoOutput => output = RenderRuns(Visible(trace))

\* a rendered trace where a text skip comes before a pattern skip in one run
\* that a capture marker interrupts
DiffConsolidationWitness ==
    /\ output # NoOutput
    /\ trace = <<Step("Hit", MatchLit(97), 97),
                 Step("SkipText", NoMatch, 98),
                 Step("StartCapture", NoMatch, NoChar),
                 Step("SkipPattern", MatchClass(ClassDigit), NoChar)>>
    /\ output = <<97, 91, 45, 63, 45, 93, 123, 43, 98, 43, 125>>


(***************************************************************************)
(* Giving up.                                                              *)
(***************************************************************************)
\* the iteration of the work loop that loop_state is about to run is the last
\* one: it leaves the start node Done
LastIteration ==
    LET current == loop_state.current
        node == StateGet(state, current)
    IN  /\ current = ConfigStart(conf)
        /\ InTable(state, current)
        /\ IF loop_state.k = "Down"
           THEN IF is_ready(node)
                THEN LET got == ConfigGet(conf, current)
                         init == NodeInitialise(node, ConfigEnd(conf), loop_state.parent,
                                     current, NodeTypeGet(got.flat, got.text, current))
                     IN  init.err = "" /\ is_done(init.node)
                ELSE is_done(node)
           ELSE /\ InTable(state, loop_state.child)
                /\ is_done(StateGet(state, loop_state.child))
                /\ LET upd == NodeUpdate(node, loop_state.child, current,
                                         StateGet(state, loop_state.child).score)
                   IN  upd.err = "" /\ is_done(upd.node)

RECURSIVE FlatSize(_, _)
\* the number of places that the pattern p takes when each of its own
\* instructions takes reps places
FlatSize(p, reps) ==
    IF p = <<>> THEN 0
    ELSE (CASE Head(p).k \in {"Lit", "Class"} -> reps
            [] Head(p).k = "Capture" -> reps + FlatSize(Head(p).a, reps) + reps
            [] Head(p).k = "Repetition" ->
                  reps + FlatSize(Head(p).a, reps + 1) + (reps + 1)
            [] Head(p).k = "Alternative" ->
                  reps + FlatSize(Head(p).a, reps) + reps + FlatSize(Head(p).b, reps))
         + FlatSize(Tail(p), reps)

RECURSIVE InstrStarts(_, _, _)
\* <<place of the first replica, number of replicas>> of every instruction of
\* p, which starts at place pos
InstrStarts(p, pos, reps) ==
    IF p = <<>> THEN {}
    ELSE LET e == Head(p)
             after_a == pos + reps + FlatSize(e.a, IF e.k = "Repetition" THEN reps + 1 ELSE reps)
         IN  (CASE e.k \in {"Lit", "Class"} -> {<<pos, reps>>}
                [] e.k = "Capture" ->
                      {<<pos, reps>>, <<after_a, reps>>}
                          \cup InstrStarts(e.a, pos + reps, reps)
                [] e.k = "Repetition" ->
                      {<<pos, reps>>, <<after_a, reps + 1>>}
                          \cup InstrStarts(e.a, pos + reps, reps + 1)
                [] e.k = "Alternative" ->
                      {<<pos, reps>>, <<after_a, reps>>}
                          \cup InstrStarts(e.a, pos + reps, reps)
                          \cup InstrStarts(e.b, after_a + reps, reps))
             \cup InstrStarts(Tail(p), pos + FlatSize(<<e>>, reps), reps)

\* ix points at the first replica of an instruction, or at the end of the
\* pattern, and selects one of its replicas
WellPlaced(ix) ==
    /\ ix.rep_off >= 0
    /\ ix.rep_off < ix.reps
    /\ <<ix.pattern, ix.reps>> \in
          InstrStarts(pattern, 0, 1) \cup {<<Len(conf.pattern), 1>>}

\* C21 (no address collision): the index that the work loop goes down into
\* has rep_off < reps and points at the first replica of its instruction; of
\* the indices that the step kinds lead to from the start index, each is so
\* placed, each has its slot text*W + pattern + rep_off inside the table of
\* (|T|+1)*W nodes, and no two share a slot.
NoAddressCollision ==
    /\ (pc = "loop" /\ loop_state.k = "Down") =>
          /\ WellPlaced(loop_state.current)
          /\ InTable(state, loop_state.current)
    /\ pc = "score" =>
          /\ state.pattern_len = Len(conf.pattern) + 1
          /\ DOMAIN state.nodes = 0..((Len(text) + 1) * state.pattern_len - 1)
          /\ \A ix \in ReachableIxs :
                /\ WellPlaced(ix)
                /\ ix.text \in 0..Len(text)
                /\ InTable(state, ix)
                /\ \A other \in ReachableIxs :
                      StateNode(state, ix) = StateNode(state, other) => ix = other

\* the loop has finished on a pattern with one repetition inside another, and
\* two indices met at the same instruction and text position lie in different
\* replicas
NoAddressCollisionWitness ==
    /\ pc = "score"
    /\ \E e \in {pattern[n] : n \in DOMAIN pattern} :
          e.k = "Repetition" /\ e.a # <<>> /\ e.a[1].k = "Repetition"
    /\ \E ix \in ReachableIxs : \E other \in ReachableIxs :
          /\ ix.pattern = other.pattern
          /\ ix.text = other.text
          /\ ix.rep_off = 0
          /\ other.rep_off = 2


\* C22 (solver equivalence): on every problem the recursive solver over the
\* sparse state returns Ok as the table solver does, with the same score.
SolverEquivalence ==
    (pc = "done" /\ map_result # "NotRun") =>
        /\ result = "Ok"
        /\ map_result = "Ok"
        /\ map_score = score

\* both solvers have solved (a*|b)*a against aba, on which a skip is needed
SolverEquivalenceWitness ==
    /\ pc = "done"
    /\ map_result = "Ok"
    /\ result = "Ok"
    /\ text = <<97, 98, 97>>
    /\ pattern = <<ElemRepetition(<<ElemAlternative(<<ElemRepetition(<<ElemLit(97)>>)>>,
                                                   <<ElemLit(98)>>)>>),
                   ElemLit(97)>>
    /\ map_score = score
    /\ Cardinality(DOMAIN map_nodes) > 8


\* the node the work loop descends into, when the text has not run out there
DescendsWithText ==
    /\ pc = "loop"
    /\ loop_state.k = "Down"
    /\ InTable(state, loop_state.current)
    /\ loop_state.current.text < Len(text)

HasSkipText(step_types) ==
    \E n \in DOMAIN step_types : step_types[n] = StSkipText

\* SkipText costs 1, moves one character on and resets rep_off
SkipTextShape(ix) ==
    /\ StepTypeCost(StSkipText) = 1
    /\ ConfigStep(ix, StSkipText) = [ix EXCEPT !.text = ix.text + 1, !.rep_off = 0]

\* the recursive solver tries skip_text at every node that has text left
LatticeSkipsTextEverywhere ==
    map_nodes # MapStateNew =>
        LET mconf == MapConfigNew(pattern, text)
        IN  \A ix \in DOMAIN map_nodes :
                (~MapConfigGetPanics(mconf, ix) /\ ix.tix < Len(text)) =>
                    \E n \in DOMAIN SolveIxLeads(mconf, ix) :
                        SolveIxLeads(mconf, ix)[n] = skip_text(ix)

\* C23 as stated (SkipText is available everywhere): at every index with
\* ti < |T| the solver descends into, whatever the instruction, SkipText is
\* among the step kinds tried at that node.
SkipTextEverywhere ==
    /\ DescendsWithText =>
            /\ HasSkipText(StepTypesAt(loop_state.current))
            /\ SkipTextShape(loop_state.current)
    /\ LatticeSkipsTextEverywhere

\* C23 (SkipText where the table solver offers it): at an index with ti < |T|
\* TableSolution tries SkipText (ti+1, rep_off := 0, cost 1) exactly when the
\* instruction is a Lit, a Class or the end of the pattern, and not at a
\* group, alternative or repetition instruction; the recursive solver tries
\* skip_text at every index with ti < |T|.
SkipTextAtAtoms ==
    /\ DescendsWithText =>
            /\ HasSkipText(StepTypesAt(loop_state.current))
                    <=> ConfigGet(conf, loop_state.current).flat.k \in {"Lit", "Class", "None"}
            /\ SkipTextShape(loop_state.current)
    /\ LatticeSkipsTextEverywhere

\* both solvers have been at a GroupStart with text left: the table node
\* there holds StartGroup alone, the recursive one tried skip_text
SkipTextAtAtomsWitness ==
    /\ pc = "done"
    /\ map_result = "Ok"
    /\ result = "Ok"
    /\ \E ix \in ReachableIxs :
            /\ ix.text < Len(text)
            /\ ConfigGet(conf, ix).flat.k = "GroupStart"
            /\ StateGet(state, ix).step_types = <<StStartGroup>>
            /\ is_done(StateGet(state, ix))
    /\ \E ix \in DOMAIN map_nodes :
            /\ ix.tix < Len(text)
            /\ MapConfigGet(MapConfigNew(pattern, text), ix).patt.k = "GroupStart"
            /\ SolveIxLeads(MapConfigNew(pattern, text), ix)[1] = skip_text(ix)


\* the work loop is descending from a node into one of its children
Descending ==
    /\ pc = "loop"
    /\ loop_state.k = "Down"
    /\ loop_state.current # ConfigStart(conf)

\* the step kind the descent follows: the one at the parent's cursor
DescentStep == current_step_type(StateGet(state, loop_state.parent))

\* C24 (rep_off invariant): rep_off is 0 at the start index, at the end index
\* and at the successor of every Hit or SkipText; every other step kind
\* leaves the text position alone and changes rep_off by +1
\* (StartRepetition) or by -1 (EndRepetition, taken only with rep_off > 0) or
\* not at all; rep_off never goes below 0, and an index at the end of the
\* pattern has reps = 1 and rep_off = 0, so that it is end_ix when the text
\* is finished too.
RepOffInvariant ==
    /\ ConfigStart(conf).rep_off = 0
    /\ ConfigEnd(conf).rep_off = 0
    /\ (pc = "loop" /\ loop_state.k = "Down") =>
            LET current == loop_state.current
            IN  /\ current.rep_off >= 0
                /\ current.pattern = Len(conf.pattern) =>
                        /\ current.reps = 1
                        /\ current.rep_off = 0
                        /\ current.text = Len(conf.text) => current = ConfigEnd(conf)
    /\ Descending =>
            LET current == loop_state.current
                parent == loop_state.parent
            IN  /\ current = ConfigStep(parent, DescentStep)
                /\ ~StepUnderflows(parent, DescentStep)
                /\ CASE DescentStep.k \in {"Hit", "SkipText"} ->
                            /\ current.text = parent.text + 1
                            /\ current.rep_off = 0
                      [] DescentStep.k = "StartRepetition" ->
                            /\ current.text = parent.text
                            /\ current.rep_off = parent.rep_off + 1
                      [] DescentStep.k = "EndRepetition" ->
                            /\ current.text = parent.text
                            /\ parent.rep_off > 0
                            /\ current.rep_off = parent.rep_off - 1
                      [] OTHER ->
                            /\ current.text = parent.text
                            /\ current.rep_off = parent.rep_off

\* an EndRepetition taken at rep_off = 1 leads to the end of the pattern with
\* text left, at reps = 1 and rep_off = 0
RepOffInvariantWitness ==
    /\ Descending
    /\ DescentStep = StEndRepetition
    /\ loop_state.parent.rep_off = 1
    /\ loop_state.current.pattern = Len(conf.pattern)
    /\ loop_state.current.text < Len(conf.text)
    /\ loop_state.current.reps = 1
    /\ loop_state.current.rep_off = 0


\* C25 (bounding box): every index Config::step hands to the work loop has
\* its pattern position in 0..|P| of the replicated pattern and its text
\* position in 0..|T|, and its replica lies in the row of its text position;
\* RestartRepetition never subtracts below 0 and StartRight, PassRight and
\* PassRepetition never land beyond |P|.
BoundingBox ==
    /\ (pc = "loop" /\ loop_state.k = "Down") =>
            LET current == loop_state.current
            IN  /\ current.pattern \in 0..Len(conf.pattern)
                /\ current.text \in 0..Len(conf.text)
                /\ current.pattern + current.rep_off < state.pattern_len
                /\ InTable(state, current)
    /\ Descending =>
            LET parent == loop_state.parent
            IN  /\ DescentStep.k = "RestartRepetition" =>
                        parent.pattern - DescentStep.off >= 0
                /\ DescentStep.k = "StartRight" =>
                        parent.pattern + DescentStep.off + parent.reps <= Len(conf.pattern)
                /\ DescentStep.k = "PassRight" =>
                        parent.pattern + DescentStep.off <= Len(conf.pattern)
                /\ DescentStep.k = "PassRepetition" =>
                        parent.pattern + DescentStep.off + parent.reps + 1 <= Len(conf.pattern)

\* a PassRepetition over a repetition that closes the pattern lands on |P|
\* exactly, in the last row of the table
BoundingBoxWitness ==
    /\ Descending
    /\ DescentStep.k = "PassRepetition"
    /\ loop_state.parent.pattern > 0
    /\ loop_state.current.pattern = Len(conf.pattern)
    /\ loop_state.current.text = Len(conf.text)
    /\ Len(conf.text) > 0


\* the work loop is returning a child to the node that descended into it
Returning ==
    /\ pc = "loop"
    /\ loop_state.k = "Back"

\* C26 (Back attributes the score to the right step): in every cursor state
\* Back{current, child} the node current is Working, the node child is Done,
\* and child is Config::step of current by the step kind at current's cursor.
BackAttribution ==
    Returning =>
        /\ InTable(state, loop_state.current)
        /\ InTable(state, loop_state.child)
        /\ is_working(StateGet(state, loop_state.current))
        /\ is_done(StateGet(state, loop_state.child))
        /\ loop_state.child =
                ConfigStep(loop_state.current,
                           current_step_type(StateGet(state, loop_state.current)))

\* a Down has landed on a node that another parent had expanded and
\* completed: the Back goes to the Down's parent, not to the recorded one
BackAttributionWitness ==
    /\ Returning
    /\ loop_state.child # ConfigEnd(conf)
    /\ StateGet(state, loop_state.child).parent # loop_state.current
    /\ is_done(StateGet(state, loop_state.child))
    /\ StateGet(state, loop_state.current).current > 1

\* a Working node has completed: the Back goes to its recorded first parent
BackToFirstParentWitness ==
    /\ Returning
    /\ loop_state.child # ConfigEnd(conf)
    /\ StateGet(state, loop_state.child).parent = loop_state.current
    /\ Len(StateGet(state, loop_state.child).step_types) > 1


\* the node the cursor hangs from: the parent of a Down, the current of a Back
CursorTop ==
    IF loop_state.k = "Down" THEN loop_state.parent ELSE loop_state.current

\* the recorded parent links from ix back to the parent of start_ix, followed
\* for at most fuel nodes
RECURSIVE ParentChain(_, _)
ParentChain(ix, fuel) ==
    IF ix = DefaultIx \/ fuel = 0 \/ ~InTable(state, ix) THEN <<>>
    ELSE <<ix>> \o ParentChain(StateGet(state, ix).parent, fuel - 1)

SearchStack == ParentChain(CursorTop, Cardinality(DOMAIN state.nodes))

WorkingPlaces == {n \in DOMAIN state.nodes : is_working(state.nodes[n])}

\* C27 (Working nodes form the search stack): at the start of every
\* iteration of the work loop the Working nodes are exactly the nodes on the
\* chain of recorded parent links from the cursor back to start_ix, each
\* once; every other node is Ready or Done, and no node is Working when the
\* loop has exited.
WorkingIsStack ==
    /\ pc = "loop" =>
            /\ WorkingPlaces = {StateNode(state, SearchStack[n]) : n \in DOMAIN SearchStack}
            /\ Cardinality(WorkingPlaces) = Len(SearchStack)
            /\ SearchStack # <<>> => SearchStack[Len(SearchStack)] = ConfigStart(conf)
            /\ loop_state.k = "Down" =>
                    ~is_working(StateGet(state, loop_state.current))
    /\ pc = "score" => WorkingPlaces = {}

\* the loop is five nodes deep, returning into the top of the stack, while
\* other nodes are Done already
WorkingIsStackWitness ==
    /\ Returning
    /\ Len(SearchStack) >= 5
    /\ Cardinality({n \in DOMAIN state.nodes : is_done(state.nodes[n])}) >= 3
    /\ SearchStack[1] = loop_state.current


\* the Done node at ix holds the least of cost + child score over its step
\* kinds, with the step kind and the child that give it
HoldsSubScore(ix) ==
    LET node == StateGet(state, ix)
    IN  /\ node.step_types = StepTypesAt(ix)
        /\ \E n \in DOMAIN node.step_types : node.step_types[n] = node.step_type
        /\ node.next = ConfigStep(ix, node.step_type)
        /\ InTable(state, node.next)
        /\ is_done(StateGet(state, node.next))
        /\ node.score = StepTypeCost(node.step_type) + StateGet(state, node.next).score
        /\ \A n \in DOMAIN node.step_types :
                /\ is_done(StateGet(state, ConfigStep(ix, node.step_types[n])))
                /\ node.score <= TotalAt(ix, n)

\* C28 (every Done node holds its optimal sub-score): at any point of the
\* work loop each Done node other than end_ix has score = cost(step_type) +
\* score(next) with next = Config::step(ix, step_type) a Done node, and that
\* score is the least of cost + child score over the step kinds of its list;
\* end_ix, once visited, is Done with score 0.
DoneNodesOptimal ==
    (pc \in {"loop", "score"}) =>
        /\ \A ix \in ReachableIxs :
                (ix # ConfigEnd(conf) /\ is_done(StateGet(state, ix))) => HoldsSubScore(ix)
        /\ ~is_working(StateGet(state, ConfigEnd(conf)))
        /\ StateGet(state, ConfigEnd(conf)).score = 0
        /\ pc = "score" => is_done(StateGet(state, ConfigEnd(conf)))

\* in the middle of the loop a node is Done on a positive score that its
\* second step kind gave and its first did not
DoneNodesOptimalWitness ==
    /\ pc = "loop"
    /\ is_working(StateGet(state, ConfigStart(conf)))
    /\ \E ix \in ReachableIxs :
            LET node == StateGet(state, ix)
            IN  /\ is_done(node)
                /\ Len(node.step_types) >= 2
                /\ node.step_type = node.step_types[2]
                /\ node.score > 0
                /\ node.score < TotalAt(ix, 1)


\* what one step of the program may do to one node of the table
NodeMovesOn(old, new) ==
    /\ new.current \in {old.current, old.current + 1}
    /\ new.current <= Len(new.step_types) + 1
    /\ ~is_ready(old) =>
            /\ new.step_types = old.step_types
            /\ new.parent = old.parent
    /\ is_working(old) =>
            \/ new = old
            \/ new.current = old.current + 1
    /\ is_done(old) => new = old

\* C29 (node lifecycle is one-way): a node goes Ready -> Working -> Done and
\* never back; it is initialised at most once, its cursor only grows, by
\* exactly 1 per update, and never exceeds len(step_types) + 1, and a Done
\* node's score, step kind and next link never change again.
LifecycleOneWay ==
    [][ /\ DOMAIN state'.nodes = DOMAIN state.nodes
        /\ \A n \in DOMAIN state.nodes : NodeMovesOn(state.nodes[n], state'.nodes[n])
        /\ Cardinality({n \in DOMAIN state.nodes : state'.nodes[n] # state.nodes[n]}) <= 1
      ]_vars

\* the table holds nodes in each of the three stages, one of them Done after
\* three updates
LifecycleOneWayWitness ==
    /\ pc = "loop"
    /\ \E n \in DOMAIN state.nodes : is_ready(state.nodes[n])
    /\ \E n \in DOMAIN state.nodes :
            is_working(state.nodes[n]) /\ state.nodes[n].current = 2
    /\ \E n \in DOMAIN state.nodes :
            /\ is_done(state.nodes[n])
            /\ Len(state.nodes[n].step_types) = 3
            /\ state.nodes[n].current = 4


\* the number of (node, step kind) pairs over a set of indices
RECURSIVE EdgeCount(_)
EdgeCount(ixs) ==
    IF ixs = {} THEN 0
    ELSE LET ix == CHOOSE i \in ixs : TRUE
         IN  Len(StepTypesAt(ix)) + EdgeCount(ixs \ {ix})

\* the loop has returned with the cursor on start_ix, every reachable node
\* initialised and Done and no other node touched, after one iteration for
\* the Down into start_ix and, for each (node, step kind) pair, one Down and
\* one Back
LoopFinished ==
    /\ pc = "score"
    /\ loop_state.current = ConfigStart(conf)
    /\ is_done(StateGet(state, ConfigStart(conf)))
    /\ \A ix \in ReachableIxs : is_done(StateGet(state, ix))
    /\ Cardinality({n \in DOMAIN state.nodes : ~is_ready(state.nodes[n])})
            = Cardinality(ReachableIxs)
    /\ loop_counter = 1 + 2 * EdgeCount(ReachableIxs)

\* C30 (termination): on every pattern and text the work loop eventually
\* reaches the state where the cursor is at start_ix and that node is Done;
\* by then each reachable node has been initialised once and each (node,
\* step kind) pair descended once, so that the loop has taken 1 + 2 * (number
\* of pairs) iterations.
Termination == <>LoopFinished

\* the loop has returned from a lattice of more than twenty nodes
TerminationWitness ==
    /\ LoopFinished
    /\ Cardinality(ReachableIxs) > 20
    /\ EdgeCount(ReachableIxs) > Cardinality(ReachableIxs)
    /\ Len(text) > 0


(***************************************************************************)
(* Flattening and parsing as operations: FlatPattern::new,                 *)
(* FlatPattern::custom with rep_incr = 1 (Config::new) and                 *)
(* RegexQuestion::ask, each applied once to a pattern drawn from a         *)
(* bounded set.                                                            *)
(***************************************************************************)
\* flat_pattern.rs doc example: abc<def<ghi>jkl>mno
DocPattern ==
    <<ElemLit(97), ElemLit(98), ElemLit(99),
      ElemRepetition(<<ElemLit(100), ElemLit(101), ElemLit(102),
                       ElemRepetition(<<ElemLit(103), ElemLit(104), ElemLit(105)>>),
                       ElemLit(106), ElemLit(107), ElemLit(108)>>),
      ElemLit(109), ElemLit(110), ElemLit(111)>>

\* chained and nested alternatives: a|b|c, (a|b)|c, (a|b|c)*a, a|(b|c)*, (a|b*|c)*
ChainPatterns ==
    { <<ElemAlternative(<<ElemLit(97)>>,
                        <<ElemAlternative(<<ElemLit(98)>>, <<ElemLit(99)>>)>>)>>,
      <<ElemAlternative(<<ElemAlternative(<<ElemLit(97)>>, <<ElemLit(98)>>)>>,
                        <<ElemLit(99)>>)>>,
      <<ElemRepetition(<<ElemAlternative(<<ElemLit(97)>>,
                           <<ElemAlternative(<<ElemLit(98)>>, <<ElemLit(99)>>)>>)>>),
        ElemLit(97)>>,
      <<ElemAlternative(<<ElemLit(97)>>,
          <<ElemRepetition(<<ElemAlternative(<<ElemLit(98)>>, <<ElemLit(99)>>)>>)>>)>>,
      <<ElemRepetition(<<ElemAlternative(<<ElemLit(97)>>,
          <<ElemAlternative(<<ElemRepetition(<<ElemLit(98)>>)>>, <<ElemLit(99)>>)>>)>>)>> }

FlatPatterns == Patterns \cup HollowPatterns \cup ChainPatterns \cup {DocPattern}

\* regex_syntax::hir::Hir, the kinds parse_impl distinguishes; sub holds the
\* children (one child for Capture and Repetition)
Hir(k, bytes, cs, sub) == [k |-> k, bytes |-> bytes, cs |-> cs, sub |-> sub]

HirEmpty == Hir("Empty", <<>>, {}, <<>>)

\* the Hir of a pattern: adjacent literals form one Literal, an alternative
\* whose right branch is itself an alternative is one Alternation
RECURSIVE HirOfPattern(_), HirOfElement(_), HirConcat(_, _)
HirOfPattern(p) ==
    IF Len(p) = 0 THEN HirEmpty
    ELSE IF Len(p) = 1 THEN HirOfElement(p[1])
    ELSE IF \A i \in 1..Len(p) : p[i].k = "Lit"
         THEN Hir("Literal", [i \in 1..Len(p) |-> p[i].c], {}, <<>>)
         ELSE Hir("Concat", <<>>, {}, HirConcat(p, 1))

HirConcat(p, i) ==
    IF i > Len(p) THEN <<>>
    ELSE <<HirOfElement(p[i])>> \o HirConcat(p, i + 1)

HirOfElement(elem) ==
    CASE elem.k = "Lit" -> Hir("Literal", <<elem.c>>, {}, <<>>)
      [] elem.k = "Class" -> Hir("Class", <<>>, elem.cs, <<>>)
      [] elem.k = "Capture" -> Hir("Capture", <<>>, {}, <<HirOfPattern(elem.a)>>)
      [] elem.k = "Repetition" -> Hir("Repetition", <<>>, {}, <<HirOfPattern(elem.a)>>)
      [] elem.k = "Alternative" ->
            Hir("Alternation", <<>>, {},
                <<HirOfPattern(elem.a)>> \o
                (IF HirOfPattern(elem.b).k = "Alternation"
                 THEN HirOfPattern(elem.b).sub
                 ELSE <<HirOfPattern(elem.b)>>))

\* Result<usize, Error> of parse_impl, with the items pushed so far
ParseOk(items, n) == [items |-> items, n |-> n, err |-> "None"]

ParseErr(items) == [items |-> items, n |-> 0, err |-> "PatternUnsupported"]

\* RegexQuestion::parse_impl and RegexQuestion::parse_alternation_impl
RECURSIVE parse_impl(_, _), parse_concat(_, _, _, _), parse_alternation_impl(_, _, _)
parse_impl(hir, items) ==
    CASE hir.k = "Literal" ->
            ParseOk(items \o [i \in 1..Len(hir.bytes) |-> FlatLit(hir.bytes[i])],
                    Len(hir.bytes))
      [] hir.k = "Class" -> ParseOk(items \o <<FlatClass(hir.cs)>>, 1)
      [] hir.k = "Capture" ->
            LET inner == parse_impl(hir.sub[1], items \o <<FlatGroupStart>>)
            IN  IF inner.err # "None" THEN inner
                ELSE ParseOk(inner.items \o <<FlatGroupEnd>>, inner.n + 2)
      [] hir.k = "Alternation" ->
            IF Len(hir.sub) = 0 THEN ParseOk(items, 0)
            ELSE parse_alternation_impl(hir.sub[1], Tail(hir.sub), items)
      [] hir.k = "Repetition" ->
            LET start_ix == Len(items)
                inner == parse_impl(hir.sub[1], items \o <<FlatRepetitionStart(0)>>)
                offset == inner.n + 1
            IN  IF inner.err # "None" THEN inner
                ELSE ParseOk(update_patt(inner.items, FlatRepetitionStart(offset),
                                         start_ix, 1)
                                \o <<FlatRepetitionEnd(offset)>>,
                             inner.n + 2)
      [] hir.k = "Concat" -> parse_concat(hir.sub, 1, items, 0)
      [] OTHER -> ParseErr(items)

parse_concat(children, i, items, sum) ==
    IF i > Len(children) THEN ParseOk(items, sum)
    ELSE LET child == parse_impl(children[i], items)
         IN  IF child.err # "None" THEN child
             ELSE parse_concat(children, i + 1, child.items, sum + child.n)

parse_alternation_impl(left, right, items) ==
    IF Len(right) = 0 THEN parse_impl(left, items)
    ELSE LET left_ix == Len(items)
             l == parse_impl(left, items \o <<FlatAlternativeLeft(0)>>)
             right_ix == Len(l.items)
             r == parse_alternation_impl(right[1], Tail(right),
                                         l.items \o <<FlatAlternativeRight(0)>>)
             next_ix == Len(r.items)
         IN  IF l.err # "None" THEN l
             ELSE IF r.err # "None" THEN r
             ELSE ParseOk(update_patt(update_patt(r.items,
                                          FlatAlternativeLeft(right_ix - left_ix),
                                          left_ix, 1),
                                      FlatAlternativeRight(next_ix - right_ix),
                                      right_ix, 1),
                          l.n + r.n + 2)

\* RegexQuestion::parse_pattern, after regex_syntax::parse
parse_pattern(hir) ==
    LET parsed == parse_impl(hir, <<>>)
    IN  IF parsed.err # "None" THEN parsed
        ELSE ParseOk(parsed.items \o <<PattEnd>>, parsed.n)

\* RegexQuestion::new_text
new_text(atoms) == [n \in 1..Len(atoms) |-> TextLit(atoms[n])] \o <<TextEnd>>

\* FlatPattern::new: the flat pattern without replication
FlatPatternNew(p) == FlatPatternCustom(p, 0)

\* a pattern flattened by FlatPattern::new
FlattenNew ==
    /\ pc = "flatten"
    /\ conf' = [text |-> text, pattern |-> FlatPatternNew(pattern)]
    /\ pc' = "new"
    /\ UNCHANGED <<pattern, text, state, loop_state, loop_counter, score, from, trace,
                   result, map_vars, cli_vars>>

\* a pattern flattened by Config::new, that is FlatPattern::custom(pattern, 1)
FlattenCustom ==
    /\ pc = "flatten"
    /\ conf' = ConfigNew(pattern, text)
    /\ pc' = "custom"
    /\ UNCHANGED <<pattern, text, state, loop_state, loop_counter, score, from, trace,
                   result, map_vars, cli_vars>>

\* RegexQuestion::ask on the regex whose Hir is that of the pattern
Ask ==
    /\ pc = "flatten"
    /\ \E parsed \in {parse_pattern(HirOfPattern(pattern))} :
           IF parsed.err # "None"
           THEN /\ Stop(parsed.err)
                /\ UNCHANGED conf
           ELSE /\ conf' = [text |-> new_text(text), pattern |-> parsed.items]
                /\ pc' = "parsed"
                /\ UNCHANGED result
    /\ UNCHANGED <<pattern, text, state, loop_state, loop_counter, score, from, trace,
                   map_vars, cli_vars>>

FlatInit ==
    /\ pattern \in FlatPatterns
    /\ text \in {<<>>, <<97>>}
    /\ conf = [text |-> text, pattern |-> <<>>]
    /\ state = StateNew(conf)
    /\ loop_state = Down(DefaultIx, ConfigStart(conf))
    /\ loop_counter = 0
    /\ pc = "flatten"
    /\ score = 0
    /\ from = DefaultIx
    /\ trace = <<>>
    /\ result = "Running"
    /\ map_result = "NotRun"
    /\ map_score = 0
    /\ map_trace = <<>>
    /\ map_nodes = MapStateNew
    /\ problem = NoProblem
    /\ output = NoOutput
    /\ max_steps = MaxSteps

FlatNext ==
    \/ FlattenNew
    \/ FlattenCustom
    \/ Ask

FlatSpec == FlatInit /\ [][FlatNext]_vars


(***************************************************************************)
(* C31: replication.                                                       *)
(***************************************************************************)
\* number of repetitions open before index i of an unreplicated flat pattern
OpenRepetitions(flat, i) ==
    Cardinality({j \in 0..(i - 1) : FlatGet(flat, j).k = "RepetitionStart"})
        - Cardinality({j \in 0..(i - 1) : FlatGet(flat, j).k = "RepetitionEnd"})

\* the index of the first replica of instruction i
RECURSIVE ReplicaStart(_, _)
ReplicaStart(flat, i) ==
    IF i = 0 THEN 0
    ELSE ReplicaStart(flat, i - 1) + 1 + OpenRepetitions(flat, i - 1)

\* the offset of instruction i measured between first replicas
ReplicaOff(flat, i) ==
    LET instr == FlatGet(flat, i)
    IN  CASE instr.k \in {"AlternativeLeft", "AlternativeRight", "RepetitionStart"} ->
                ReplicaStart(flat, i + instr.off) - ReplicaStart(flat, i)
          [] instr.k = "RepetitionEnd" ->
                ReplicaStart(flat, i) - ReplicaStart(flat, i - instr.off)
          [] OTHER -> instr.off

\* the offsets of the repetition and alternative instructions, in order
RECURSIVE OffsetsFrom(_, _)
OffsetsFrom(flat, i) ==
    IF i > Len(flat) THEN <<>>
    ELSE (IF flat[i].k \in {"Lit", "Class", "GroupStart", "GroupEnd"}
          THEN <<>> ELSE <<flat[i].off>>) \o OffsetsFrom(flat, i + 1)

\* C31: with rep_incr = 1 instruction i of the unreplicated flat pattern is
\* emitted 1 + d times, d the repetitions open before it (its own for a
\* RepetitionEnd, not its own for a RepetitionStart), every replica carrying
\* the offset measured between first replicas; the documented pattern has
\* length 19 and offsets 12, 4, 4, 12 unreplicated and length 35 and offsets
\* 27, 11, 11, 27 (per replica) replicated.
Replication ==
    /\ pc = "custom" =>
          LET flat == FlatPatternNew(pattern)
          IN  /\ Len(conf.pattern) = ReplicaStart(flat, Len(flat))
              /\ \A i \in 0..(Len(flat) - 1) :
                     \A r \in 0..OpenRepetitions(flat, i) :
                         FlatGet(conf.pattern, ReplicaStart(flat, i) + r)
                             = [FlatGet(flat, i) EXCEPT !.off = ReplicaOff(flat, i)]
    /\ pc = "new" /\ pattern = DocPattern =>
          /\ Len(conf.pattern) = 19
          /\ OffsetsFrom(conf.pattern, 1) = <<12, 4, 4, 12>>
    /\ pc = "custom" /\ pattern = DocPattern =>
          /\ Len(conf.pattern) = 35
          /\ OffsetsFrom(conf.pattern, 1) = <<27, 11, 11, 11, 11, 11, 27, 27>>

ReplicationWitness ==
    /\ pc = "custom"
    /\ pattern = DocPattern
    /\ Len(conf.pattern) = 35
    /\ FlatGet(conf.pattern, 10) = FlatRepetitionStart(11)
    /\ FlatGet(conf.pattern, 23) = FlatRepetitionEnd(11)


(***************************************************************************)
(* C32: alternation offsets.                                               *)
(***************************************************************************)
RECURSIVE PlacesTaken(_, _, _)
\* the number of places that the pattern p takes when each of its own
\* instructions takes reps places and a repetition adds incr
PlacesTaken(p, reps, incr) ==
    IF p = <<>> THEN 0
    ELSE (CASE Head(p).k \in {"Lit", "Class"} -> reps
            [] Head(p).k = "Capture" -> reps + PlacesTaken(Head(p).a, reps, incr) + reps
            [] Head(p).k = "Repetition" ->
                  reps + PlacesTaken(Head(p).a, reps + incr, incr) + (reps + incr)
            [] Head(p).k = "Alternative" ->
                  reps + PlacesTaken(Head(p).a, reps, incr)
                       + reps + PlacesTaken(Head(p).b, reps, incr))
         + PlacesTaken(Tail(p), reps, incr)

RECURSIVE AlternativePlaces(_, _, _, _)
\* for every alternative of p, which starts at place pos: the places of the
\* first replicas of its left and right markers, the place after its right
\* branch, and the number of replicas
AlternativePlaces(p, pos, reps, incr) ==
    IF p = <<>> THEN {}
    ELSE LET e == Head(p)
             inner_reps == IF e.k = "Repetition" THEN reps + incr ELSE reps
             after_a == pos + reps + PlacesTaken(e.a, inner_reps, incr)
         IN  (CASE e.k \in {"Lit", "Class"} -> {}
                [] e.k \in {"Capture", "Repetition"} ->
                      AlternativePlaces(e.a, pos + reps, inner_reps, incr)
                [] e.k = "Alternative" ->
                      {[left |-> pos, right |-> after_a,
                        next |-> after_a + reps + PlacesTaken(e.b, reps, incr),
                        reps |-> reps]}
                          \cup AlternativePlaces(e.a, pos + reps, reps, incr)
                          \cup AlternativePlaces(e.b, after_a + reps, reps, incr))
             \cup AlternativePlaces(Tail(p), pos + PlacesTaken(<<e>>, reps, incr),
                                    reps, incr)

\* the flat pattern of the state came from flattening or from the parser
Flattened == pc \in {"new", "custom", "parsed"}

\* the rep_incr that the flat pattern of the state was built with
IncrHere == IF pc = "custom" THEN 1 ELSE 0

\* C32: in a flat pattern built by FlatPattern::new, by FlatPattern::custom
\* with rep_incr = 1 or by the regex parser, every replica of the left
\* marker of an alternative has, at its place plus its offset, the same
\* replica of the right marker of that alternative, and every replica of the
\* right marker has, at its place plus its offset, the place that follows the
\* right branch; every left and right marker of the array belongs to an
\* alternative of the pattern.  Alternatives inside alternatives and chains
\* a|b|c are among the patterns.
AlternationOffsets ==
    Flattened =>
        LET alts == AlternativePlaces(pattern, 0, 1, IncrHere)
        IN  /\ \A alt \in alts : \A r \in 0..(alt.reps - 1) :
                   LET l == FlatGet(conf.pattern, alt.left + r)
                       rt == FlatGet(conf.pattern, alt.right + r)
                   IN  /\ l.k = "AlternativeLeft"
                       /\ rt.k = "AlternativeRight"
                       /\ alt.left + r + l.off = alt.right + r
                       /\ alt.right + r + rt.off = alt.next + r
            /\ \A i \in 0..(Len(conf.pattern) - 1) :
                   /\ FlatGet(conf.pattern, i).k = "AlternativeLeft" =>
                         \E alt \in alts : i - alt.left \in 0..(alt.reps - 1)
                   /\ FlatGet(conf.pattern, i).k = "AlternativeRight" =>
                         \E alt \in alts : i - alt.right \in 0..(alt.reps - 1)

\* a chain a|b|c inside a repetition, flattened with replication: the second
\* replica of the outer right marker leads past the whole chain
AlternationOffsetsWitness ==
    /\ pc = "custom"
    /\ \E outer, inner \in AlternativePlaces(pattern, 0, 1, 1) :
           /\ outer.reps = 2
           /\ inner.left = outer.right + outer.reps
           /\ inner.next = outer.next
           /\ FlatGet(conf.pattern, outer.right + 1).k = "AlternativeRight"
           /\ FlatGet(conf.pattern, outer.next + 1).k = "RepetitionEnd"

\* the parser has parsed a chain a|b|c
AlternationParsedWitness ==
    /\ pc = "parsed"
    /\ \E outer, inner \in AlternativePlaces(pattern, 0, 1, 0) :
           /\ inner.left = outer.right + 1
           /\ FlatGet(conf.pattern, outer.next) = PattEnd


(***************************************************************************)
(* C33: repetition offsets.                                                *)
(***************************************************************************)
RECURSIVE RepetitionPlaces(_, _, _, _)
\* for every repetition of p, which starts at place pos: the places of the
\* first replicas of its start and end markers and the number of replicas of
\* the start marker
RepetitionPlaces(p, pos, reps, incr) ==
    IF p = <<>> THEN {}
    ELSE LET e == Head(p)
             inner_reps == IF e.k = "Repetition" THEN reps + incr ELSE reps
             after_a == pos + reps + PlacesTaken(e.a, inner_reps, incr)
         IN  (CASE e.k \in {"Lit", "Class"} -> {}
                [] e.k = "Capture" -> RepetitionPlaces(e.a, pos + reps, reps, incr)
                [] e.k = "Repetition" ->
                      {[start |-> pos, end |-> after_a, reps |-> reps]}
                          \cup RepetitionPlaces(e.a, pos + reps, inner_reps, incr)
                [] e.k = "Alternative" ->
                      RepetitionPlaces(e.a, pos + reps, reps, incr)
                          \cup RepetitionPlaces(e.b, after_a + reps, reps, incr))
             \cup RepetitionPlaces(Tail(p), pos + PlacesTaken(<<e>>, reps, incr),
                                   reps, incr)

\* C33: in a flat pattern built by FlatPattern::new, by FlatPattern::custom
\* with rep_incr = 1 or by the regex parser, every replica of the start
\* marker and every replica of the end marker of a repetition stores the
\* same offset, the place of the end marker minus the place of the start
\* marker (places of first replicas, which are the places the solver's
\* indices hold); a replica of the start marker has the same replica of the
\* end marker at its place plus the offset, and the end marker's replica has
\* the start marker's replica at its place minus the offset; every start and
\* end marker of the array belongs to a repetition of the pattern.
\* Repetitions inside repetitions are among the patterns.
RepetitionOffsets ==
    Flattened =>
        LET places == RepetitionPlaces(pattern, 0, 1, IncrHere)
        IN  /\ \A rp \in places :
                   /\ \A r \in 0..(rp.reps - 1) :
                          /\ FlatGet(conf.pattern, rp.start + r)
                                 = FlatRepetitionStart(rp.end - rp.start)
                          /\ FlatGet(conf.pattern, rp.start + r + (rp.end - rp.start)).k
                                 = "RepetitionEnd"
                          /\ FlatGet(conf.pattern, rp.end + r - (rp.end - rp.start)).k
                                 = "RepetitionStart"
                   /\ \A r \in 0..(rp.reps + IncrHere - 1) :
                          FlatGet(conf.pattern, rp.end + r)
                              = FlatRepetitionEnd(rp.end - rp.start)
            /\ \A i \in 0..(Len(conf.pattern) - 1) :
                   /\ FlatGet(conf.pattern, i).k = "RepetitionStart" =>
                         \E rp \in places : i - rp.start \in 0..(rp.reps - 1)
                   /\ FlatGet(conf.pattern, i).k = "RepetitionEnd" =>
                         \E rp \in places : i - rp.end \in 0..(rp.reps + IncrHere - 1)

\* a repetition inside a repetition, flattened with replication: the inner
\* start marker has two replicas and the inner end marker three
RepetitionOffsetsWitness ==
    /\ pc = "custom"
    /\ \E outer, inner \in RepetitionPlaces(pattern, 0, 1, 1) :
           /\ outer.start < inner.start
           /\ inner.end < outer.end
           /\ inner.reps = 2
           /\ inner.end - inner.start > 2
           /\ FlatGet(conf.pattern, inner.start + 1).k = "RepetitionStart"
           /\ FlatGet(conf.pattern, inner.end + 2).k = "RepetitionEnd"

\* the parser has parsed a repetition inside a repetition
RepetitionParsedWitness ==
    /\ pc = "parsed"
    /\ \E outer, inner \in RepetitionPlaces(pattern, 0, 1, 0) :
           /\ outer.start < inner.start
           /\ inner.end < outer.end
           /\ FlatGet(conf.pattern, inner.end) = FlatRepetitionEnd(inner.end - inner.start)


(***************************************************************************)
(* C34: where the offsets lead.                                            *)
(***************************************************************************)
\* the flat pattern of the state came from FlatPattern::new or ::custom
FlattenedByCustom == pc \in {"new", "custom"}

\* the place that the instruction at place i designates
Designated(flat, i) ==
    IF FlatGet(flat, i).k = "RepetitionEnd"
    THEN i - FlatGet(flat, i).off
    ELSE i + FlatGet(flat, i).off

\* C34 as the specification states it: every stored offset is non-negative
\* and every designated place is one of the places 0..len-1 of the array.
OffsetsStrictlyInternal ==
    FlattenedByCustom =>
        \A i \in 0..(Len(conf.pattern) - 1) :
            /\ FlatGet(conf.pattern, i).off >= 0
            /\ Designated(conf.pattern, i) \in 0..(Len(conf.pattern) - 1)

\* C34, amended: every stored offset is non-negative and every designated
\* place is one of 0..len; the place len, one past the array, is designated
\* only by the right marker of an alternative that ends the pattern.
OffsetsInternal ==
    FlattenedByCustom =>
        \A i \in 0..(Len(conf.pattern) - 1) :
            /\ FlatGet(conf.pattern, i).off >= 0
            /\ Designated(conf.pattern, i) \in 0..Len(conf.pattern)
            /\ Designated(conf.pattern, i) = Len(conf.pattern) =>
                  /\ FlatGet(conf.pattern, i).k = "AlternativeRight"
                  /\ \E alt \in AlternativePlaces(pattern, 0, 1, IncrHere) :
                         /\ alt.right = i
                         /\ alt.reps = 1
                         /\ alt.next = Len(conf.pattern)

\* an alternative ends the pattern and its right marker designates len, while
\* a repetition start and end inside it designate places of the array
OffsetsInternalWitness ==
    /\ pc = "custom"
    /\ \E i, j \in 0..(Len(conf.pattern) - 1) :
           /\ FlatGet(conf.pattern, i).k = "AlternativeRight"
           /\ Designated(conf.pattern, i) = Len(conf.pattern)
           /\ FlatGet(conf.pattern, j).k = "RepetitionEnd"
           /\ FlatGet(conf.pattern, Designated(conf.pattern, j)).k = "RepetitionStart"


(***************************************************************************)
(* The operations of a node applied in any order to the node of one index, *)
(* and the three places of solve that read a node's done_info.             *)
(***************************************************************************)
\* Node::current_step_type: err is "" for Ok(step_type)
NodeCurrentStepType(node) ==
    IF is_working(node)
    THEN [err |-> "", step_type |-> node.step_types[node.current]]
    ELSE [err |-> "CannotGetNodeField", step_type |-> StHit]

NodeDoneInfoUnchecked(node) ==
    [err |-> "", score |-> node.score, step_type |-> node.step_type, next |-> node.next]

\* Node::done_info: err is "" for Ok((score, step_type, next))
NodeDoneInfo(node) ==
    IF is_done(node)
    THEN [err |-> "", score |-> node.score, step_type |-> node.step_type,
          next |-> node.next]
    ELSE [err |-> "CannotGetNodeField", score |-> 0, step_type |-> StHit,
          next |-> DefaultIx]

\* the node types and the missing node type that initialise may be given
NodeTypeInputs ==
    { NodeType(k, 0) : k \in {"FinishedPattern", "FinishedText", "Hit", "NoHit",
                              "StartGroup", "EndGroup", "RepetitionEnd"} }
        \cup { NodeType(k, 2) : k \in {"AlternativeLeft", "AlternativeRight",
                                       "RepetitionStart", "RepetitionRestart"} }
        \cup {NoNodeType}

\* the indices given as parent or child
IxInputs == {Ix(0, 0, 1, 0), Ix(1, 0, 1, 0)}

\* the scores given to update
MaxChildScore == 2

\* the outcome of an operation: its error, or Ok
Outcome(err) == IF err = "" THEN "Ok" ELSE err

\* the node that the operations are applied to
NodeAtFrom == StateGet(state, from)

\* node_state.initialise(end_ix, parent, current, opt_node_type)
OpInitialiseWith(parent_ix, opt_node_type) ==
    /\ pc = "node"
    /\ \E init \in {NodeInitialise(NodeAtFrom, ConfigEnd(conf), parent_ix, from,
                                   opt_node_type)} :
           /\ state' = StateSet(state, from, init.node)
           /\ result' = Outcome(init.err)
    /\ UNCHANGED <<pattern, text, conf, loop_state, loop_counter, pc, score, from, trace,
                   map_vars, cli_vars>>

OpInitialise ==
    \E parent_ix \in IxInputs, opt_node_type \in NodeTypeInputs :
        OpInitialiseWith(parent_ix, opt_node_type)

\* node_state.update(new_child, current, new_score)
OpUpdate ==
    /\ pc = "node"
    /\ \E new_child \in IxInputs, new_score \in 0..MaxChildScore :
           \E upd \in {NodeUpdate(NodeAtFrom, new_child, from, new_score)} :
               /\ state' = StateSet(state, from, upd.node)
               /\ result' = Outcome(upd.err)
    /\ UNCHANGED <<pattern, text, conf, loop_state, loop_counter, pc, score, from, trace,
                   map_vars, cli_vars>>

\* final_state.current_step_type()
OpCurrentStepType ==
    /\ pc = "node"
    /\ result' = Outcome(NodeCurrentStepType(NodeAtFrom).err)
    /\ UNCHANGED <<pattern, text, conf, state, loop_state, loop_counter, pc, score, from,
                   trace, map_vars, cli_vars>>

\* node.done_info()
OpDoneInfo ==
    /\ pc = "node"
    /\ result' = Outcome(NodeDoneInfo(NodeAtFrom).err)
    /\ score' = NodeDoneInfo(NodeAtFrom).score
    /\ UNCHANGED <<pattern, text, conf, state, loop_state, loop_counter, pc, from, trace,
                   map_vars, cli_vars>>

\* solve: start_node.done_info().map(|i| i.0).map_err(|_| IncompleteFinalState)?
SolveReadsScore ==
    /\ pc = "node"
    /\ pc' = "solve"
    /\ \E info \in {NodeDoneInfo(NodeAtFrom)} :
           /\ result' = IF info.err # "" THEN "IncompleteFinalState" ELSE "Ok"
           /\ score' = info.score
    /\ UNCHANGED <<pattern, text, conf, state, loop_state, loop_counter, from, trace,
                   map_vars, cli_vars>>

\* LoopState::Back: state.get(new_child).done_info()?
BackReadsScore ==
    /\ pc = "node"
    /\ pc' = "back"
    /\ \E info \in {NodeDoneInfo(NodeAtFrom)} :
           /\ result' = Outcome(info.err)
           /\ score' = info.score
    /\ UNCHANGED <<pattern, text, conf, state, loop_state, loop_counter, from, trace,
                   map_vars, cli_vars>>

\* solve: the reconstruction loop breaks at a node that is not done or at
\* end_ix, and fails when it broke before end_ix
TraceBreaks ==
    /\ pc = "node"
    /\ ~is_done(NodeAtFrom) \/ from = ConfigEnd(conf)
    /\ pc' = "trace_end"
    /\ result' = IF from # ConfigEnd(conf) THEN "IncompleteFinalState" ELSE "Ok"
    /\ UNCHANGED <<pattern, text, conf, state, loop_state, loop_counter, score, from,
                   trace, map_vars, cli_vars>>

NodeInit ==
    /\ pattern = <<ElemLit(97)>>
    /\ text = <<97>>
    /\ conf = ConfigNew(pattern, text)
    /\ state = StateNew(conf)
    /\ loop_state = Down(DefaultIx, ConfigStart(conf))
    /\ loop_counter = 0
    /\ pc = "node"
    /\ score = 0
    /\ from \in {ConfigStart(conf), ConfigEnd(conf)}
    /\ trace = <<>>
    /\ result = "Running"
    /\ map_result = "NotRun"
    /\ map_score = 0
    /\ map_trace = <<>>
    /\ map_nodes = MapStateNew
    /\ problem = NoProblem
    /\ output = NoOutput
    /\ max_steps = MaxSteps

NodeNext ==
    \/ OpInitialise
    \/ OpUpdate
    \/ OpCurrentStepType
    \/ OpDoneInfo
    \/ SolveReadsScore
    \/ BackReadsScore
    \/ TraceBreaks

NodeSpec == NodeInit /\ [][NodeNext]_vars

(***************************************************************************)
(* C35: reading the score of a node that is not done.                      *)
(***************************************************************************)
\* one of the three places of solve has read the node, which is not done
ReadNotDone ==
    /\ pc \in {"solve", "back", "trace_end"}
    /\ ~is_done(NodeAtFrom)
    /\ pc = "trace_end" => from # ConfigEnd(conf)

\* C35 as the specification states it: at each place that reads the score of
\* a node that is not done, solve fails with IncompleteFinalState.
ReadNotDoneIsIncomplete ==
    ReadNotDone => result = "IncompleteFinalState"

\* C35, amended: solve fails with IncompleteFinalState where it reads the
\* score of the start node and where the reconstruction loop stops before
\* end_ix, and with CannotGetNodeField where the Back arm of the work loop
\* reads the score of the child; a node that is done is read without error.
ReadNotDoneFails ==
    /\ ReadNotDone =>
          result = IF pc = "back" THEN "CannotGetNodeField" ELSE "IncompleteFinalState"
    /\ (pc \in {"solve", "back"} /\ is_done(NodeAtFrom)) =>
          /\ result = "Ok"
          /\ score = NodeAtFrom.score

\* the Back arm has read the score of a node that is working on its second
\* step kind
ReadNotDoneFailsWitness ==
    /\ pc = "back"
    /\ is_working(NodeAtFrom)
    /\ NodeAtFrom.current = 2
    /\ result = "CannotGetNodeField"

\* solve has read the score of a start node that is still ready
ReadNotDoneSolveWitness ==
    /\ pc = "solve"
    /\ is_ready(NodeAtFrom)
    /\ result = "IncompleteFinalState"


(***************************************************************************)
(* C36: the operations of a node reject the wrong states.                  *)
(***************************************************************************)
\* C36: in any sequence of operations on a node, initialise on a node that
\* is not ready gives CannotInitialiseNode, update on a node that is not
\* working gives CannotUpdateNode, current_step_type on a node that is not
\* working and done_info on a node that is not done give CannotGetNodeField,
\* and the table of nodes is the same after each of them; initialise of a
\* ready node with no node type at an index other than end_ix gives
\* NoNodeType and the node, unchanged, is still ready.
RejectedChangesNothing ==
    [][/\ (OpInitialise /\ ~is_ready(NodeAtFrom)) =>
              (result' = "CannotInitialiseNode" /\ state' = state)
       /\ (OpUpdate /\ ~is_working(NodeAtFrom)) =>
              (result' = "CannotUpdateNode" /\ state' = state)
       /\ (OpCurrentStepType /\ ~is_working(NodeAtFrom)) =>
              (result' = "CannotGetNodeField" /\ state' = state)
       /\ (OpDoneInfo /\ ~is_done(NodeAtFrom)) =>
              (result' = "CannotGetNodeField" /\ state' = state)
       /\ \A parent_ix \in IxInputs :
              (/\ OpInitialiseWith(parent_ix, NoNodeType)
               /\ is_ready(NodeAtFrom)
               /\ from # ConfigEnd(conf)) =>
                  (/\ result' = "NoNodeType"
                   /\ state' = state
                   /\ is_ready(StateGet(state', from)))]_vars

\* update has been rejected on a node that is done after two updates
RejectedChangesNothingWitness ==
    /\ pc = "node"
    /\ result = "CannotUpdateNode"
    /\ is_done(NodeAtFrom)
    /\ NodeAtFrom.current = 3
    /\ NodeAtFrom.score > 0

\* initialise with no node type has been rejected and the node is ready
RejectedNoNodeTypeWitness ==
    /\ pc = "node"
    /\ result = "NoNodeType"
    /\ is_ready(NodeAtFrom)


(***************************************************************************)
(* C37: capture markers.                                                   *)
(***************************************************************************)
RECURSIVE CapturePlaces(_, _, _)
\* for every capture of p, which starts at place pos: the places of the first
\* replicas of its GroupStart and GroupEnd in the replicated flat pattern
CapturePlaces(p, pos, reps) ==
    IF p = <<>> THEN {}
    ELSE LET e == Head(p)
             inner_reps == IF e.k = "Repetition" THEN reps + 1 ELSE reps
             after_a == pos + reps + PlacesTaken(e.a, inner_reps, 1)
         IN  (CASE e.k \in {"Lit", "Class"} -> {}
                [] e.k = "Capture" ->
                      {[start |-> pos, end |-> after_a]}
                          \cup CapturePlaces(e.a, pos + reps, reps)
                [] e.k = "Repetition" -> CapturePlaces(e.a, pos + reps, inner_reps)
                [] e.k = "Alternative" ->
                      CapturePlaces(e.a, pos + reps, reps)
                          \cup CapturePlaces(e.b, after_a + reps, reps))
             \cup CapturePlaces(Tail(p), pos + PlacesTaken(<<e>>, reps, 1), reps)

\* StartCapture steps minus StopCapture steps among the first n steps
CaptureDepth(tr, n) ==
    Cardinality({m \in 1..n : tr[m].k = "StartCapture"})
        - Cardinality({m \in 1..n : tr[m].k = "StopCapture"})

\* the step that closes the capture which step n opens
ClosingStep(tr, n) ==
    CHOOSE m \in (n + 1)..Len(tr) :
        /\ CaptureDepth(tr, m) = CaptureDepth(tr, n - 1)
        /\ \A l \in n..(m - 1) : CaptureDepth(tr, l) > CaptureDepth(tr, n - 1)

\* C37: in a trace that solve returns the capture markers are balanced (no
\* prefix has more StopCapture than StartCapture steps, the whole trace has
\* as many of each); the markers are those of the path: a step is a
\* StartCapture exactly when the node that emitted it lies at a GroupStart
\* and a StopCapture exactly when it lies at a GroupEnd, every node of the
\* path at a GroupStart or GroupEnd emits its marker, and the StopCapture
\* that closes a StartCapture lies at the GroupEnd of the same capture.
CaptureBalance ==
    Returned =>
        /\ \A n \in 0..Len(trace) : CaptureDepth(trace, n) >= 0
        /\ CaptureDepth(trace, Len(trace)) = 0
        /\ Len(EmittingIxs) = Len(trace)
        /\ \A n \in DOMAIN trace :
              /\ trace[n].k = "StartCapture"
                    <=> FlatGet(conf.pattern, EmittingIxs[n].pattern).k = "GroupStart"
              /\ trace[n].k = "StopCapture"
                    <=> FlatGet(conf.pattern, EmittingIxs[n].pattern).k = "GroupEnd"
              /\ trace[n].k = "StartCapture" =>
                    [start |-> EmittingIxs[n].pattern,
                     end |-> EmittingIxs[ClosingStep(trace, n)].pattern]
                        \in CapturePlaces(pattern, 0, 1)
        /\ \A n \in DOMAIN StartChain.ixs :
              FlatGet(conf.pattern, StartChain.ixs[n].pattern).k
                      \in {"GroupStart", "GroupEnd"}
                  => StepTypeStep(StateGet(state, StartChain.ixs[n]).step_type) # "None"

\* a returned trace opens a capture inside a capture, and opens one capture
\* twice
CaptureBalanceWitness ==
    /\ Returned
    /\ \E n \in DOMAIN trace : CaptureDepth(trace, n) = 2
    /\ \E n, m \in DOMAIN trace :
          /\ n < m
          /\ trace[n].k = "StartCapture"
          /\ trace[m].k = "StartCapture"
          /\ EmittingIxs[n].pattern = EmittingIxs[m].pattern

\* a returned trace has no marker for the capture of a repetition it passed
CaptureSkippedWitness ==
    /\ Returned
    /\ CapturePlaces(pattern, 0, 1) # {}
    /\ \A n \in DOMAIN trace : trace[n].k \notin {"StartCapture", "StopCapture"}


(***************************************************************************)
(* The earlier revision (src/src): MapSolution and TableSolution, both     *)
(* recursive, over a Problem of Vec<Patt> and Vec<Text>.                   *)
(***************************************************************************)
\* Patt of the earlier revision, as the solvers match on it
OldPattLit(c) == Flat("Lit", c, {}, 0)
OldPattAny == Flat("Any", NoChar, {}, 0)
OldPattGroupStart == Flat("GroupStart", NoChar, {}, 0)
OldPattGroupEnd == Flat("GroupEnd", NoChar, {}, 0)
OldPattKleeneStart(off) == Flat("KleeneStart", NoChar, {}, off)
OldPattKleeneEnd(off) == Flat("KleeneEnd", NoChar, {}, off)
OldPattEnd == Flat("End", NoChar, {}, 0)

\* RegexQuestion::parse_impl of the earlier revision on the Hir of a pattern
\* without alternatives, a class being the wildcard
RECURSIVE OldParseImpl(_)
OldParseImpl(p) ==
    IF p = <<>> THEN <<>>
    ELSE (CASE Head(p).k = "Lit" -> <<OldPattLit(Head(p).c)>>
            [] Head(p).k = "Class" -> <<OldPattAny>>
            [] Head(p).k = "Capture" ->
                  <<OldPattGroupStart>> \o OldParseImpl(Head(p).a) \o <<OldPattGroupEnd>>
            [] Head(p).k = "Repetition" ->
                  LET inner == OldParseImpl(Head(p).a)
                      offset == Len(inner) + 1
                  IN  <<OldPattKleeneStart(offset)>> \o inner
                          \o <<OldPattKleeneEnd(offset)>>)
         \o OldParseImpl(Tail(p))

\* RegexQuestion::ask of the earlier revision
OldProblem(p, atoms) ==
    [pattern |-> OldParseImpl(p) \o <<OldPattEnd>>, text |-> new_text(atoms)]

\* Step of the earlier revision
OldStep(from_patt, from_text, to_patt, to_text, step_score, kind) ==
    [from_patt |-> from_patt, from_text |-> from_text, to_patt |-> to_patt,
     to_text |-> to_text, score |-> step_score, kind |-> kind]

\* Next of both solvers
OldNext(cost, next, kind) == [cost |-> cost, next |-> next, kind |-> kind]

\* Node and Done of both solvers
OldNode(k, node_score, next, kind) ==
    [k |-> k, score |-> node_score, next |-> next, kind |-> kind]

\* Done::combine
OldDoneCombine(left, right) ==
    IF left.score <= right.score THEN left ELSE right

\* what solve_impl hands back: Err(err) when err is not "", the state left
OldResult(err, nodes, done) == [err |-> err, nodes |-> nodes, done |-> done]

\* the leads that succ pushes for (patt, text), given the nine constructors
\* of Next in the order hit, skip_text, skip_patt, start_group, stop_group,
\* restart_kleene, end_kleene, start_kleene, pass_kleene
OldSucc(patt, txt, restart, nexts) ==
    (IF txt.k = "Lit" /\ (patt.k = "Any" \/ (patt.k = "Lit" /\ patt.c = txt.c))
     THEN <<nexts[1]>> ELSE <<>>)
    \o (IF txt.k = "Lit" THEN <<nexts[2]>> ELSE <<>>)
    \o (CASE patt.k \in {"Lit", "Any"} -> <<nexts[3]>>
          [] patt.k = "GroupStart" -> <<nexts[4]>>
          [] patt.k = "GroupEnd" -> <<nexts[5]>>
          [] patt.k = "KleeneEnd" /\ restart -> <<nexts[6]>>
          [] patt.k = "KleeneEnd" /\ ~restart -> <<nexts[7]>>
          [] patt.k = "KleeneStart" -> <<nexts[8], nexts[9]>>
          [] patt.k = "End" -> <<>>)

(***************************************************************************)
(* src/src/map_solution.rs                                                 *)
(***************************************************************************)
\* map_solution::Ix::start and Ix::end
OldMapStart == MapIx(0, 0, 0)
OldMapEnd(prob) == MapIx(Len(prob.pattern) - 1, Len(prob.text) - 1, 0)

OldMapReady == OldNode("Ready", 0, OldMapStart, "NoOp")
OldMapWorking == OldNode("Working", 0, OldMapStart, "NoOp")
OldMapNoDone == OldNode("None", 0, OldMapStart, "NoOp")

\* Index<Ix> for State and IndexMut<Ix> for State over the HashMap
OldMapGet(nodes, ix) == IF ix \in DOMAIN nodes THEN nodes[ix] ELSE OldMapReady

OldMapSet(nodes, ix, node) ==
    [k \in (DOMAIN nodes) \cup {ix} |-> IF k = ix THEN node ELSE nodes[k]]

\* the bounds checks of State::current_pattern and State::current_text
OldMapPanics(prob, ix) ==
    \/ ix.pix \notin 0..(Len(prob.pattern) - 1)
    \/ ix.tix \notin 0..(Len(prob.text) - 1)

\* map_solution::Next::hit, skip_text, ... in the order OldSucc takes them
OldMapNexts(ix, off) ==
    << OldNext(0, MapIx(ix.pix + 1, ix.tix + 1, 0), "Hit"),
       OldNext(1, [ix EXCEPT !.tix = ix.tix + 1, !.kix = 0], "SkipText"),
       OldNext(1, [ix EXCEPT !.pix = ix.pix + 1], "SkipPattern"),
       OldNext(0, [ix EXCEPT !.pix = ix.pix + 1], "StartCapture"),
       OldNext(0, [ix EXCEPT !.pix = ix.pix + 1], "StopCapture"),
       OldNext(0, [ix EXCEPT !.pix = ix.pix - off], "NoOp"),
       OldNext(0, [ix EXCEPT !.pix = ix.pix + 1, !.kix = ix.kix - 1], "NoOp"),
       OldNext(0, [ix EXCEPT !.pix = ix.pix + 1, !.kix = ix.kix + 1], "NoOp"),
       OldNext(0, [ix EXCEPT !.pix = ix.pix + 1 + off], "NoOp") >>

\* MapSolution::succ
OldMapSucc(prob, ix) ==
    LET patt == prob.pattern[ix.pix + 1]
        txt == prob.text[ix.tix + 1]
    IN  OldSucc(patt, txt, ix.kix = 0, OldMapNexts(ix, patt.off))

RECURSIVE OldMapSolveImpl(_, _, _, _)
RECURSIVE OldMapReduce(_, _, _, _, _)

\* MapSolution::solve_impl
OldMapSolveImpl(prob, nodes, end_ix, lead) ==
    LET ix == lead.next
        node == OldMapGet(nodes, ix)
    IN  IF node.k = "Working"
        THEN OldResult("InfiniteLoop", nodes, OldMapNoDone)
        ELSE IF node.k = "Done"
        THEN OldResult("", nodes, OldNode("Done", node.score + lead.cost, ix, lead.kind))
        ELSE IF OldMapPanics(prob, ix)
        THEN OldResult("Panic", OldMapSet(nodes, ix, OldMapWorking), OldMapNoDone)
        ELSE LET tried == OldMapReduce(prob, OldMapSet(nodes, ix, OldMapWorking), end_ix,
                                       OldMapSucc(prob, ix), OldMapNoDone)
                 best == IF tried.done.k = "None"
                         THEN OldNode("Done", 0, end_ix, "NoOp")
                         ELSE tried.done
             IN  IF tried.err # ""
                 THEN tried
                 ELSE IF tried.done.k = "None" /\ ix # end_ix
                 THEN OldResult("Blocked", tried.nodes, OldMapNoDone)
                 ELSE OldResult("", OldMapSet(tried.nodes, ix, best),
                                OldNode("Done", best.score + lead.cost, ix, lead.kind))

\* MapSolution::solve_impl: the calls on the steps and their reduce; the
\* leftmost Err is the one that combine_result keeps
OldMapReduce(prob, nodes, end_ix, steps, maybe_score) ==
    IF steps = <<>>
    THEN OldResult("", nodes, maybe_score)
    ELSE LET outcome == OldMapSolveImpl(prob, nodes, end_ix, Head(steps))
         IN  IF outcome.err # ""
             THEN outcome
             ELSE OldMapReduce(prob, outcome.nodes, end_ix, Tail(steps),
                               IF maybe_score.k = "None" THEN outcome.done
                               ELSE OldDoneCombine(maybe_score, outcome.done))

\* Ix::to_step with the score that remains after the step
OldMapToStepAfter(from_ix, done) ==
    OldStep(from_ix.pix, from_ix.tix, done.next.pix, done.next.tix,
            IF done.kind \in {"SkipText", "SkipPattern"} THEN done.score - 1 ELSE done.score,
            done.kind)

\* map_solution::Ix::to_step
OldMapToStep(from_ix, done) ==
    OldStep(from_ix.pix, from_ix.tix, done.next.pix, done.next.tix, done.score, done.kind)

RECURSIVE OldMapTrace(_, _, _, _, _)

\* MapSolution::solve: the reconstruction loop; fuel bounds the iterations
OldMapTrace(nodes, end_ix, from_ix, steps, fuel) ==
    LET done == OldMapGet(nodes, from_ix)
    IN  IF done.k # "Done" \/ from_ix = end_ix
        THEN [err |-> "", from |-> from_ix, trace |-> steps]
        ELSE IF fuel = 0
        THEN [err |-> "Diverges", from |-> from_ix, trace |-> steps]
        ELSE OldMapTrace(nodes, end_ix, done.next,
                         Append(steps, OldMapToStep(from_ix, done)), fuel - 1)

\* MapSolution::solve
OldMapSolve(prob) ==
    LET start_ix == OldMapStart
        end_ix == OldMapEnd(prob)
        solved == OldMapSolveImpl(prob, MapStateNew, end_ix, OldNext(0, start_ix, "NoOp"))
        start_node == OldMapGet(solved.nodes, start_ix)
        walked == OldMapTrace(solved.nodes, end_ix, start_ix, <<>>,
                              Cardinality(DOMAIN solved.nodes) + 1)
        failed(err) == [result |-> err, score |-> 0, trace |-> <<>>, nodes |-> solved.nodes]
    IN  IF solved.err # "" THEN failed(solved.err)
        ELSE IF start_node.k # "Done" THEN failed("IncompleteFinalState")
        ELSE IF walked.err # "" THEN failed(walked.err)
        ELSE IF walked.from # end_ix THEN failed("IncompleteFinalState")
        ELSE [result |-> "Ok", score |-> start_node.score, trace |-> walked.trace,
              nodes |-> solved.nodes]


(***************************************************************************)
(* src/src/table_solution.rs                                               *)
(***************************************************************************)
\* table_solution::Ix
OldTableIx(txt, patt, kleene_depth, kleene_depth_this_text) ==
    [text |-> txt, pattern |-> patt, kleene_depth |-> kleene_depth,
     kleene_depth_this_text |-> kleene_depth_this_text]

RECURSIVE OldExpandFrom(_, _, _, _, _, _)

\* State::expand_pattern: the loop from the item orig_ix (counted from 0) on;
\* err is "Panic" for the expect on a KleeneEnd without a KleeneStart
OldExpandFrom(original, orig_ix, expanded, original_ix, kleene_start_ixs, kleene_depth) ==
    IF orig_ix >= Len(original)
    THEN [err |-> "", expanded |-> expanded, original_ix |-> original_ix]
    ELSE LET patt == original[orig_ix + 1]
         IN  CASE patt.k \in {"Lit", "Any", "GroupStart", "GroupEnd", "End"} ->
                    OldExpandFrom(original, orig_ix + 1,
                                  expanded \o [i \in 1..(kleene_depth + 1) |-> patt],
                                  original_ix \o [i \in 1..(kleene_depth + 1) |-> orig_ix],
                                  kleene_start_ixs, kleene_depth)
               [] patt.k = "KleeneStart" ->
                    OldExpandFrom(original, orig_ix + 1,
                                  expanded \o [i \in 1..(kleene_depth + 1) |->
                                                  OldPattKleeneStart(0)],
                                  original_ix \o [i \in 1..(kleene_depth + 1) |-> orig_ix],
                                  Append(kleene_start_ixs, Len(expanded)),
                                  kleene_depth + 1)
               [] patt.k = "KleeneEnd" ->
                    IF kleene_start_ixs = <<>>
                    THEN [err |-> "Panic", expanded |-> expanded,
                          original_ix |-> original_ix]
                    ELSE LET kleene_end_ix == Len(expanded)
                             kleene_start_ix == kleene_start_ixs[Len(kleene_start_ixs)]
                             offset == kleene_end_ix - kleene_start_ix
                             pushed == expanded \o [i \in 1..(kleene_depth + 1) |->
                                                       OldPattKleeneEnd(offset)]
                         IN  OldExpandFrom(original, orig_ix + 1,
                                 [i \in 1..Len(pushed) |->
                                     IF kleene_start_ix + 1 <= i
                                        /\ i <= kleene_start_ix + kleene_depth
                                     THEN OldPattKleeneStart(offset)
                                     ELSE pushed[i]],
                                 original_ix \o [i \in 1..(kleene_depth + 1) |-> orig_ix],
                                 SubSeq(kleene_start_ixs, 1, Len(kleene_start_ixs) - 1),
                                 kleene_depth - 1)

\* State::expand_pattern
OldExpandPattern(original) == OldExpandFrom(original, 0, <<>>, <<>>, <<>>, 0)

OldTableStart == OldTableIx(0, 0, 0, 0)

OldTableReady == OldNode("Ready", 0, OldTableStart, "NoOp")
OldTableWorking == OldNode("Working", 0, OldTableStart, "NoOp")
OldTableNoDone == OldNode("None", 0, OldTableStart, "NoOp")

\* table_solution::State::new
OldTableStateNew(prob) ==
    LET expansion == OldExpandPattern(prob.pattern)
        num_nodes == Len(expansion.expanded) * Len(prob.text)
    IN  [nodes |-> [i \in 0..(num_nodes - 1) |-> OldTableReady],
         expanded_pattern |-> expansion.expanded,
         original_pattern_ix |-> expansion.original_ix]

\* table_solution::Ix::end
OldTableEnd(prob, st) ==
    OldTableIx(Len(prob.text) - 1, Len(st.expanded_pattern) - 1, 0, 0)

\* State::nodes_ix without the replica that kleene_depth_this_text selects
OldNodesIxFirstReplica(st, ix) ==
    ix.text * Len(st.expanded_pattern) + ix.pattern

\* State::nodes_ix
OldNodesIx(st, ix) ==
    ix.text * Len(st.expanded_pattern) + ix.pattern + ix.kleene_depth_this_text

\* the bounds check of Index<Ix> for State, and the usize subtractions of
\* the Next constructors
OldTableIndexPanics(st, ix) ==
    \/ ix.pattern < 0
    \/ ix.kleene_depth < 0
    \/ ix.kleene_depth_this_text < 0
    \/ OldNodesIx(st, ix) \notin DOMAIN st.nodes

\* the bounds checks of State::current_pattern and State::current_text
OldTablePanics(prob, st, ix) ==
    \/ ix.pattern \notin 0..(Len(st.expanded_pattern) - 1)
    \/ ix.text \notin 0..(Len(prob.text) - 1)

\* Index<Ix> for State and IndexMut<Ix> for State over the Vec
OldTableGet(st, ix) == st.nodes[OldNodesIx(st, ix)]

OldTableSet(st, ix, node) == [st EXCEPT !.nodes[OldNodesIx(st, ix)] = node]

\* table_solution::Next::hit, skip_text, ... in the order OldSucc takes them
OldTableNexts(ix, off) ==
    << OldNext(0, [ix EXCEPT !.text = ix.text + 1,
                             !.pattern = ix.pattern + ix.kleene_depth + 1,
                             !.kleene_depth_this_text = 0], "Hit"),
       OldNext(1, [ix EXCEPT !.text = ix.text + 1, !.kleene_depth_this_text = 0],
               "SkipText"),
       OldNext(1, [ix EXCEPT !.pattern = ix.pattern + ix.kleene_depth + 1], "SkipPattern"),
       OldNext(0, [ix EXCEPT !.pattern = ix.pattern + ix.kleene_depth + 1], "StartCapture"),
       OldNext(0, [ix EXCEPT !.pattern = ix.pattern + ix.kleene_depth + 1], "StopCapture"),
       OldNext(0, [ix EXCEPT !.pattern = ix.pattern - off,
                             !.kleene_depth = ix.kleene_depth - 1], "NoOp"),
       OldNext(0, [ix EXCEPT !.pattern = ix.pattern + ix.kleene_depth + 1,
                             !.kleene_depth = ix.kleene_depth - 1,
                             !.kleene_depth_this_text = ix.kleene_depth_this_text - 1],
               "NoOp"),
       OldNext(0, [ix EXCEPT !.pattern = ix.pattern + ix.kleene_depth + 1,
                             !.kleene_depth = ix.kleene_depth + 1,
                             !.kleene_depth_this_text = ix.kleene_depth_this_text + 1],
               "NoOp"),
       OldNext(0, [ix EXCEPT !.pattern = ix.pattern + off + ix.kleene_depth + 2], "NoOp") >>

\* TableSolution::succ
OldTableSucc(prob, st, ix) ==
    LET patt == st.expanded_pattern[ix.pattern + 1]
        txt == prob.text[ix.text + 1]
    IN  OldSucc(patt, txt, ix.kleene_depth_this_text = 0, OldTableNexts(ix, patt.off))

RECURSIVE OldTableSolveImpl(_, _, _, _)
RECURSIVE OldTableReduce(_, _, _, _, _)

\* TableSolution::solve_impl; nodes is the State
OldTableSolveImpl(prob, st, end_ix, lead) ==
    LET ix == lead.next
    IN  IF OldTableIndexPanics(st, ix)
        THEN OldResult("Panic", st, OldTableNoDone)
        ELSE IF OldTableGet(st, ix).k = "Working"
        THEN OldResult("InfiniteLoop", st, OldTableNoDone)
        ELSE IF OldTableGet(st, ix).k = "Done"
        THEN OldResult("", st, OldNode("Done", OldTableGet(st, ix).score + lead.cost,
                                       ix, lead.kind))
        ELSE IF OldTablePanics(prob, st, ix)
        THEN OldResult("Panic", OldTableSet(st, ix, OldTableWorking), OldTableNoDone)
        ELSE LET tried == OldTableReduce(prob, OldTableSet(st, ix, OldTableWorking), end_ix,
                                         OldTableSucc(prob, st, ix), OldTableNoDone)
                 best == IF tried.done.k = "None"
                         THEN OldNode("Done", 0, end_ix, "NoOp")
                         ELSE tried.done
             IN  IF tried.err # ""
                 THEN tried
                 ELSE IF tried.done.k = "None" /\ ix # end_ix
                 THEN OldResult("Blocked", tried.nodes, OldTableNoDone)
                 ELSE OldResult("", OldTableSet(tried.nodes, ix, best),
                                OldNode("Done", best.score + lead.cost, ix, lead.kind))

\* TableSolution::solve_impl: the calls on the steps and their reduce
OldTableReduce(prob, st, end_ix, steps, maybe_score) ==
    IF steps = <<>>
    THEN OldResult("", st, maybe_score)
    ELSE LET outcome == OldTableSolveImpl(prob, st, end_ix, Head(steps))
         IN  IF outcome.err # ""
             THEN outcome
             ELSE OldTableReduce(prob, outcome.nodes, end_ix, Tail(steps),
                                 IF maybe_score.k = "None" THEN outcome.done
                                 ELSE OldDoneCombine(maybe_score, outcome.done))

\* table_solution::Ix::to_step
OldTableToStep(st, from_ix, done) ==
    OldStep(st.original_pattern_ix[from_ix.pattern + 1], from_ix.text,
            st.original_pattern_ix[done.next.pattern + 1], done.next.text,
            done.score, done.kind)

RECURSIVE OldTableTrace(_, _, _, _, _, _)

\* TableSolution::solve: the reconstruction loop; fuel bounds the iterations
OldTableTrace(prob, st, end_ix, from_ix, steps, fuel) ==
    IF OldTableIndexPanics(st, from_ix)
    THEN [err |-> "Panic", from |-> from_ix, trace |-> steps]
    ELSE IF OldTableGet(st, from_ix).k # "Done" \/ from_ix = end_ix
    THEN [err |-> "", from |-> from_ix, trace |-> steps]
    ELSE IF fuel = 0
    THEN [err |-> "Diverges", from |-> from_ix, trace |-> steps]
    ELSE IF \/ from_ix.pattern \notin 0..(Len(st.original_pattern_ix) - 1)
            \/ OldTableGet(st, from_ix).next.pattern
                   \notin 0..(Len(st.original_pattern_ix) - 1)
    THEN [err |-> "Panic", from |-> from_ix, trace |-> steps]
    ELSE OldTableTrace(prob, st, end_ix, OldTableGet(st, from_ix).next,
                       Append(steps, OldTableToStep(st, from_ix, OldTableGet(st, from_ix))),
                       fuel - 1)

\* TableSolution::solve
OldTableSolve(prob) ==
    LET st == OldTableStateNew(prob)
        start_ix == OldTableStart
        end_ix == OldTableEnd(prob, st)
        solved == OldTableSolveImpl(prob, st, end_ix, OldNext(0, start_ix, "NoOp"))
        walked == OldTableTrace(prob, solved.nodes, end_ix, start_ix, <<>>,
                                Cardinality(DOMAIN st.nodes) + 1)
        failed(err) == [result |-> err, score |-> 0, trace |-> <<>>, nodes |-> solved.nodes]
    IN  IF OldExpandPattern(prob.pattern).err # "" THEN failed("Panic")
        ELSE IF solved.err # "" THEN failed(solved.err)
        ELSE IF OldTableGet(solved.nodes, start_ix).k # "Done"
        THEN failed("IncompleteFinalState")
        ELSE IF walked.err # "" THEN failed(walked.err)
        ELSE IF walked.from # end_ix THEN failed("IncompleteFinalState")
        ELSE [result |-> "Ok", score |-> OldTableGet(solved.nodes, start_ix).score,
              trace |-> walked.trace, nodes |-> solved.nodes]


(***************************************************************************)
(* The problems of the earlier revision: one literal, wildcard, capture or *)
(* repetition, the body of a capture or repetition being at most two       *)
(* literals, wildcards, captures or repetitions of one literal or wildcard *)
(* or of nothing; some longer patterns; and the problems of the tests.     *)
(***************************************************************************)
OldLeaves == {ElemLit(97), ElemClass(ClassAny)}

OldInner ==
    OldLeaves
        \cup {ElemRepetition(<<l>>) : l \in OldLeaves}
        \cup {ElemCapture(<<l>>) : l \in OldLeaves}
        \cup {ElemRepetition(<<>>), ElemCapture(<<>>)}

OldBodies == {<<>>} \cup {<<e>> : e \in OldInner} \cup {<<e, f>> : e, f \in OldInner}

OldElems ==
    OldLeaves \cup {ElemRepetition(b) : b \in OldBodies}
              \cup {ElemCapture(b) : b \in OldBodies}

\* aba, (ab*)*, ((a*)*)*, a*b, (a*)b*, ((a)*b)*a, a(.*)a
OldExtraPatterns ==
    { <<ElemLit(97), ElemLit(98), ElemLit(97)>>,
      <<ElemRepetition(<<ElemLit(97), ElemRepetition(<<ElemLit(98)>>)>>)>>,
      <<ElemRepetition(<<ElemRepetition(<<ElemRepetition(<<ElemLit(97)>>)>>)>>)>>,
      <<ElemRepetition(<<ElemLit(97)>>), ElemLit(98)>>,
      <<ElemCapture(<<ElemRepetition(<<ElemLit(97)>>)>>), ElemRepetition(<<ElemLit(98)>>)>>,
      <<ElemRepetition(<<ElemRepetition(<<ElemCapture(<<ElemLit(97)>>)>>), ElemLit(98)>>),
        ElemLit(97)>>,
      <<ElemLit(97), ElemCapture(<<ElemRepetition(<<ElemClass(ClassAny)>>)>>),
        ElemLit(97)>> }

OldPatterns == {<<>>} \cup {<<e>> : e \in OldElems} \cup OldExtraPatterns

\* TestCase::fail_lit_3: abcde against zabke
OldFailLit3 ==
    [pattern |-> <<ElemLit(97), ElemLit(98), ElemLit(99), ElemLit(100), ElemLit(101)>>,
     text |-> <<122, 97, 98, 107, 101>>]

\* RegexQuestion::ask of the earlier revision
OldAsk ==
    /\ pc = "ask"
    /\ problem' = OldProblem(pattern, text)
    /\ pc' = "solve"
    /\ UNCHANGED <<pattern, text, conf, state, loop_state, loop_counter, score, from, trace,
                   result, map_vars, output, max_steps>>

\* MapSolution::solve of the earlier revision
OldMapSolution ==
    /\ pc = "solve"
    /\ map_result = "NotRun"
    /\ \E solution \in {OldMapSolve(problem)} :
           /\ map_result' = solution.result
           /\ map_score' = solution.score
           /\ map_trace' = solution.trace
           /\ map_nodes' = solution.nodes
    /\ UNCHANGED <<pattern, text, conf, state, loop_state, loop_counter, pc, score, from,
                   trace, result, cli_vars>>

\* TableSolution::solve of the earlier revision
OldTableSolution ==
    /\ pc = "solve"
    /\ result = "Running"
    /\ \E solution \in {OldTableSolve(problem)} :
           /\ result' = solution.result
           /\ score' = solution.score
           /\ trace' = solution.trace
           /\ state' = solution.nodes
    /\ UNCHANGED <<pattern, text, conf, loop_state, loop_counter, pc, from, map_vars,
                   cli_vars>>

OldInit ==
    /\ \/ pattern \in OldPatterns /\ text \in Texts
       \/ pattern = OldFailLit3.pattern /\ text = OldFailLit3.text
    /\ conf = [text |-> text, pattern |-> <<>>]
    /\ state = StateNew(conf)
    /\ loop_state = Down(DefaultIx, ConfigStart(conf))
    /\ loop_counter = 0
    /\ pc = "ask"
    /\ score = 0
    /\ from = DefaultIx
    /\ trace = <<>>
    /\ result = "Running"
    /\ map_result = "NotRun"
    /\ map_score = 0
    /\ map_trace = <<>>
    /\ map_nodes = MapStateNew
    /\ problem = NoProblem
    /\ output = NoOutput
    /\ max_steps = MaxSteps

OldSolveNext ==
    \/ OldAsk
    \/ OldMapSolution
    \/ OldTableSolution

OldSpec == OldInit /\ [][OldSolveNext]_vars

(***************************************************************************)
(* C38: the two solvers of the earlier revision.                           *)
(***************************************************************************)
\* both solvers of the earlier revision have solved the problem
OldBothSolved == pc = "solve" /\ map_result # "NotRun" /\ result # "Running"

\* C38: on every problem the TableSolution and the MapSolution of the
\* earlier revision end alike, and where they end with Ok they return the
\* same score and the same trace, step for step: the same kind, score and
\* original pattern and text places of every step.
OldSolverEquivalence ==
    OldBothSolved =>
        /\ result = map_result
        /\ result = "Ok" => score = map_score /\ trace = map_trace

\* both solvers have solved a repetition inside a repetition, whose expanded
\* pattern is longer than the pattern, with a trace that restarts
OldSolverEquivalenceWitness ==
    /\ OldBothSolved
    /\ result = "Ok"
    /\ Len(state.expanded_pattern) > Len(problem.pattern) + 2
    /\ \E n \in DOMAIN trace :
          /\ trace[n].kind = "NoOp"
          /\ trace[n].to_patt < trace[n].from_patt
    /\ \E n \in DOMAIN trace : trace[n].kind = "Hit"
    /\ score > 0


(***************************************************************************)
(* C39: the score field of the steps of the earlier revision.              *)
(***************************************************************************)
\* the number of SkipText and SkipPattern steps of tr at or after step n
OldSkipsFrom(tr, n) ==
    Cardinality({m \in n..Len(tr) : tr[m].kind \in {"SkipText", "SkipPattern"}})

OldStepScores(tr, total) ==
    /\ \A n \in DOMAIN tr : tr[n].score = OldSkipsFrom(tr, n)
    /\ tr # <<>> => tr[1].score = total
    /\ \A n \in 1..(Len(tr) - 1) : tr[n + 1].score <= tr[n].score

\* C39: in every trace that a solver of the earlier revision returns, the
\* score of each step is the number of SkipText and SkipPattern steps at or
\* after it, the first step's score is the solution's score, and the scores
\* never increase along the trace.
OldStepScore ==
    /\ pc = "solve" /\ map_result = "Ok" => OldStepScores(map_trace, map_score)
    /\ pc = "solve" /\ result = "Ok" => OldStepScores(trace, score)

\* both solvers have returned a trace of cost two or more in which a hit
\* and a step of a repetition come before the last skipped place
OldStepScoreWitness ==
    /\ OldBothSolved
    /\ result = "Ok"
    /\ map_result = "Ok"
    /\ score >= 2
    /\ \E i, j, n \in DOMAIN map_trace :
          /\ i < n /\ j < n
          /\ map_trace[i].kind = "Hit"
          /\ map_trace[j].kind = "NoOp"
          /\ map_trace[n].kind \in {"SkipText", "SkipPattern"}
          /\ map_trace[n].score = 1
    /\ \E n \in DOMAIN trace : trace[n].kind = "SkipText"
    /\ \E n \in DOMAIN trace : trace[n].kind = "SkipPattern"

====
